---- MODULE Spec2Model ----
(***************************************************************************)
(* Authentication and session model of the restaurant ordering backend:    *)
(* token validation and blacklisting, the authorization context built      *)
(* from a validated token, sign-out through the cached provider client,    *)
(* the anonymous session lifecycle, and email sign-in and sign-up.         *)
(*                                                                         *)
(* Each subsystem has its own variables and its own specification; the     *)
(* variables of the other subsystems stay at their initial values.         *)
(* Strings that the code inspects character by character (tokens) are      *)
(* sequences of one-character strings.                                     *)
(***************************************************************************)
EXTENDS Integers, Sequences, FiniteSets, TLC

VARIABLES
    \* token repository and ValidateToken / BlacklistToken use cases
    blacklist,      \* Token values on the repository's revocation list
    provider,       \* Token values the provider accepts (unexpired)
    revoked,        \* history: Token values for which BlacklistToken returned true
    tokLast,        \* the last use-case execution and what it did
    \* authorization context built by get_current_user
    appMeta,        \* app_metadata claims the provider signs into the user's token
    decodable,      \* whether jwt.decode succeeds on the user's token
    userMeta,       \* the user's user_metadata at the provider (user-editable)
    lastReq,        \* the last get_current_user call: what it read and built
    \* role, permission and tenant predicates
    authzCheck,     \* the last evaluation of the predicates on User and UserContext
    \* sign-in and sign-out through the process-wide cached provider client
    srvSessions,    \* the provider's sessions, by id: whose it is, whether it is live
    clientSession,  \* the session the cached client holds (0: none)
    soLast,         \* the last sign-out: who asked, what happened
    \* anonymous sessions
    now,            \* datetime.utcnow(), in hours
    anonStore,      \* the session repository's rows, by session id
    anonLast,       \* the last anonymous-session use case and its outcome
    expiryCheck,    \* the last is_expired() / is_valid() evaluation
    \* email sign-in and sign-up
    emailLast,      \* the last email use case: its request, the repository's
                    \* behaviour and the outcome
    \* token refresh, user profile and phone use cases
    ucLast,         \* the last execution: the use case, its request, the
                    \* repository's behaviour and the outcome
    \* the HTTP application
    httpLast,       \* the last request the application served and its response
    \* route guards built by the dependency factories
    guardLast,      \* the last guarded request: the guard, the context and the verdict
    \* sessions built from the provider's session
    clock,          \* datetime.utcnow(), in ticks
    authSession,    \* the AuthSession last built from a provider session
    sessionCheck,   \* the last is_expired() / is_valid() evaluation on it
    \* OTP verification through the cached provider client
    otpHeld,        \* the user whose session the cached client holds
    otpNames,       \* the name in each user's user_metadata at the provider
    otpProc,        \* each OTPVerificationUseCase execution: its position and request
    otpUpdates,     \* history: the name updates applied and for whom they were meant
    \* the cached provider client getters
    cacheEntry,     \* each getter's lru_cache entry
    getterCalls,    \* how many times each getter has been called
    clientsCreated, \* how many provider clients have been constructed
    cacheLast,      \* the last getter call and what its caller got
    \* POST /auth/validate-restaurant-code
    codeRows,       \* the rows of the anonymous_sessions table
    codeLast,       \* the last request: its code, the store's behaviour and the response
    \* value objects
    voLast          \* the last value object constructed: its input, the error or the stored value, and str() of it

tokenVars == <<blacklist, provider, revoked, tokLast>>
authzVars == <<appMeta, decodable, userMeta, lastReq>>
predVars == <<authzCheck>>
clientVars == <<srvSessions, clientSession, soLast>>
anonVars == <<now, anonStore, anonLast, expiryCheck>>
emailVars == <<emailLast>>
ucVars == <<ucLast>>
httpVars == <<httpLast>>
guardVars == <<guardLast>>
sessVars == <<clock, authSession, sessionCheck>>
otpVars == <<otpHeld, otpNames, otpProc, otpUpdates>>
cacheVars == <<cacheEntry, getterCalls, clientsCreated, cacheLast>>
codeVars == <<codeRows, codeLast>>
voVars == <<voLast>>

vars ==
    <<tokenVars, authzVars, predVars, clientVars, anonVars, emailVars,
      ucVars, httpVars, guardVars, sessVars, otpVars, cacheVars, codeVars,
      voVars>>

otherThanToken ==
    <<authzVars, predVars, clientVars, anonVars, emailVars, ucVars,
      httpVars, guardVars, sessVars, otpVars, cacheVars, codeVars, voVars>>
otherThanAuthz ==
    <<tokenVars, predVars, clientVars, anonVars, emailVars, ucVars,
      httpVars, guardVars, sessVars, otpVars, cacheVars, codeVars, voVars>>
otherThanPred ==
    <<tokenVars, authzVars, clientVars, anonVars, emailVars, ucVars,
      httpVars, guardVars, sessVars, otpVars, cacheVars, codeVars, voVars>>
otherThanClient ==
    <<tokenVars, authzVars, predVars, anonVars, emailVars, ucVars, httpVars,
      guardVars, sessVars, otpVars, cacheVars, codeVars, voVars>>
otherThanAnon ==
    <<tokenVars, authzVars, predVars, clientVars, emailVars, ucVars,
      httpVars, guardVars, sessVars, otpVars, cacheVars, codeVars, voVars>>
otherThanEmail ==
    <<tokenVars, authzVars, predVars, clientVars, anonVars, ucVars,
      httpVars, guardVars, sessVars, otpVars, cacheVars, codeVars, voVars>>
otherThanUc ==
    <<tokenVars, authzVars, predVars, clientVars, anonVars, emailVars,
      httpVars, guardVars, sessVars, otpVars, cacheVars, codeVars, voVars>>
otherThanHttp ==
    <<tokenVars, authzVars, predVars, clientVars, anonVars, emailVars,
      ucVars, guardVars, sessVars, otpVars, cacheVars, codeVars, voVars>>
otherThanGuard ==
    <<tokenVars, authzVars, predVars, clientVars, anonVars, emailVars,
      ucVars, httpVars, sessVars, otpVars, cacheVars, codeVars, voVars>>
otherThanSess ==
    <<tokenVars, authzVars, predVars, clientVars, anonVars, emailVars,
      ucVars, httpVars, guardVars, otpVars, cacheVars, codeVars, voVars>>
otherThanOtp ==
    <<tokenVars, authzVars, predVars, clientVars, anonVars, emailVars,
      ucVars, httpVars, guardVars, sessVars, cacheVars, codeVars, voVars>>
otherThanCache ==
    <<tokenVars, authzVars, predVars, clientVars, anonVars, emailVars,
      ucVars, httpVars, guardVars, sessVars, otpVars, codeVars, voVars>>
otherThanCode ==
    <<tokenVars, authzVars, predVars, clientVars, anonVars, emailVars,
      ucVars, httpVars, guardVars, sessVars, otpVars, cacheVars, voVars>>
otherThanVo ==
    <<tokenVars, authzVars, predVars, clientVars, anonVars, emailVars,
      ucVars, httpVars, guardVars, sessVars, otpVars, cacheVars, codeVars>>

(***************************************************************************)
(* Bounds                                                                  *)
(***************************************************************************)
MaxTokenLen == 2
MaxRoleList == 2
MaxSignIns == 3
MaxAnonSessions == 1
MaxTime == 36
TickHours == 12
MaxPasswordLen == 9
TicksPerSecond == 2
MaxClock == 6
MaxExpiresIn == 2
MaxGetterCalls == 3
MaxCodeSessions == 2
MaxSecretLen == 12

(***************************************************************************)
(* Program constants                                                       *)
(***************************************************************************)
DefaultExpiresHours == 24
MinPasswordLength == 8
DefaultExpiresIn == 3600
TokenMaskOver == 10
SessionTokenMaskOver == 8

(***************************************************************************)
(* Strings                                                                 *)
(***************************************************************************)
Chars == {"a", " "}

RECURSIVE StringsUpTo(_)
StringsUpTo(n) ==
    IF n = 0 THEN {<<>>}
    ELSE LET shorter == StringsUpTo(n - 1)
         IN  shorter \cup {Append(s, c) : s \in shorter, c \in Chars}

RawTokens == StringsUpTo(MaxTokenLen)

RECURSIVE lstrip(_)
lstrip(s) == IF s # <<>> /\ Head(s) = " " THEN lstrip(Tail(s)) ELSE s

RECURSIVE rstrip(_)
rstrip(s) ==
    IF s # <<>> /\ s[Len(s)] = " " THEN rstrip(SubSeq(s, 1, Len(s) - 1)) ELSE s

\* str.strip()
strip(s) == rstrip(lstrip(s))

(***************************************************************************)
(* Token value object                                                      *)
(***************************************************************************)
\* Token.__init__: ValueError on an empty or whitespace-only value, else the
\* stripped value is stored.
Token(value) ==
    IF value = <<>> \/ strip(value) = <<>>
    THEN [ok |-> FALSE, value |-> <<>>]
    ELSE [ok |-> TRUE, value |-> strip(value)]

TokenValues == {Token(v).value : v \in {r \in RawTokens : Token(r).ok}}

(***************************************************************************)
(* ITokenRepository                                                        *)
(***************************************************************************)
\* is_token_blacklisted: true if the token is on the list (Token.__eq__
\* compares the stripped values).
is_token_blacklisted(bl, token) == token.value \in bl

\* blacklist_token: adds the token and returns true, or fails and returns false.
blacklist_token(bl, token, accepted) ==
    IF accepted THEN [ret |-> TRUE, bl |-> bl \cup {token.value}]
    ELSE [ret |-> FALSE, bl |-> bl]

\* validate_token: the claims if the provider accepts the token, None otherwise.
validate_token(prov, token) == token.value \in prov

(***************************************************************************)
(* ValidateTokenUseCase.execute                                            *)
(***************************************************************************)
Outcome(kind, detail, calls) == [kind |-> kind, detail |-> detail, calls |-> calls]

\* A variant that asks the provider first and never consults the blacklist.
ValidateTokenNoBlacklist(token_value, bl, prov, hasContext, fault) ==
    LET token == Token(token_value) IN
    IF ~token.ok THEN Outcome("InvalidTokenError", "Invalid token format", <<>>)
    ELSE IF fault = "validate_token"
    THEN Outcome("AuthenticationError", "Token validation failed",
                 <<"validate_token">>)
    ELSE IF ~validate_token(prov, token)
    THEN Outcome("None", "Token validation failed", <<"validate_token">>)
    ELSE IF fault = "extract_user_context"
    THEN Outcome("AuthenticationError", "Token validation failed",
                 <<"validate_token", "extract_user_context">>)
    ELSE IF ~hasContext
    THEN Outcome("None", "Failed to extract user context",
                 <<"validate_token", "extract_user_context">>)
    ELSE Outcome("UserContext", "Token validated successfully",
                 <<"validate_token", "extract_user_context">>)

ValidateTokenExecute(token_value, bl, prov, hasContext, fault) ==
    LET token == Token(token_value) IN
    IF ~token.ok THEN Outcome("InvalidTokenError", "Invalid token format", <<>>)
    ELSE IF fault = "is_token_blacklisted"
    THEN Outcome("AuthenticationError", "Token validation failed",
                 <<"is_token_blacklisted">>)
    ELSE IF is_token_blacklisted(bl, token)
    THEN Outcome("InvalidTokenError", "Token has been revoked",
                 <<"is_token_blacklisted">>)
    ELSE IF fault = "validate_token"
    THEN Outcome("AuthenticationError", "Token validation failed",
                 <<"is_token_blacklisted", "validate_token">>)
    ELSE IF ~validate_token(prov, token)
    THEN Outcome("None", "Token validation failed",
                 <<"is_token_blacklisted", "validate_token">>)
    ELSE IF fault = "extract_user_context"
    THEN Outcome("AuthenticationError", "Token validation failed",
                 <<"is_token_blacklisted", "validate_token", "extract_user_context">>)
    ELSE IF ~hasContext
    THEN Outcome("None", "Failed to extract user context",
                 <<"is_token_blacklisted", "validate_token", "extract_user_context">>)
    ELSE Outcome("UserContext", "Token validated successfully",
                 <<"is_token_blacklisted", "validate_token", "extract_user_context">>)

(***************************************************************************)
(* BlacklistTokenUseCase.execute                                           *)
(***************************************************************************)
\* The outcome and the repository's list after the call.
BlacklistTokenExecute(token_value, bl, accepted, fault) ==
    LET token == Token(token_value) IN
    IF ~token.ok
    THEN [out |-> Outcome("InvalidTokenError", "Invalid token format", <<>>), bl |-> bl]
    ELSE IF fault = "blacklist_token"
    THEN [out |-> Outcome("AuthenticationError", "Failed to blacklist token",
                          <<"blacklist_token">>), bl |-> bl]
    ELSE LET r == blacklist_token(bl, token, accepted) IN
         [out |-> Outcome(IF r.ret THEN "True" ELSE "False",
                          IF r.ret THEN "Token added to blacklist"
                          ELSE "Failed to blacklist token",
                          <<"blacklist_token">>),
          bl |-> r.bl]

(***************************************************************************)
(* Token subsystem: state machine                                          *)
(***************************************************************************)
NoOp == [op |-> "none", token |-> <<>>, accepted |-> FALSE, fault |-> "none",
         hasContext |-> FALSE, out |-> Outcome("none", "", <<>>)]

TokenIdle ==
    /\ blacklist = {}
    /\ provider = {}
    /\ revoked = {}
    /\ tokLast = NoOp

\* The provider has issued some tokens; nothing is revoked yet.
TokenInit ==
    /\ blacklist = {}
    /\ provider \in SUBSET TokenValues
    /\ revoked = {}
    /\ tokLast = NoOp

ValidateToken(token_value, hasContext, fault) ==
    /\ tokLast' = [op |-> "ValidateToken", token |-> token_value,
                   accepted |-> token_value # <<>> /\ validate_token(provider, Token(token_value)),
                   fault |-> fault, hasContext |-> hasContext,
                   out |-> ValidateTokenExecute(token_value, blacklist, provider,
                                                hasContext, fault)]
    /\ UNCHANGED <<blacklist, provider, revoked>>
    /\ UNCHANGED otherThanToken

BlacklistToken(token_value, accepted, fault) ==
    LET r == BlacklistTokenExecute(token_value, blacklist, accepted, fault) IN
    /\ blacklist' = r.bl
    /\ revoked' = IF r.out.kind = "True"
                  THEN revoked \cup {Token(token_value).value} ELSE revoked
    /\ tokLast' = [op |-> "BlacklistToken", token |-> token_value,
                   accepted |-> accepted, fault |-> fault, hasContext |-> FALSE,
                   out |-> r.out]
    /\ UNCHANGED provider
    /\ UNCHANGED otherThanToken

\* A token reaches its natural expiry at the provider.
ProviderExpire(t) ==
    /\ t \in provider
    /\ provider' = provider \ {t}
    /\ UNCHANGED <<blacklist, revoked, tokLast>>
    /\ UNCHANGED otherThanToken

TokenValidateStep ==
    \E tv \in RawTokens, hc \in BOOLEAN,
       f \in {"none", "is_token_blacklisted", "validate_token", "extract_user_context"} :
        ValidateToken(tv, hc, f)

TokenBlacklistStep ==
    \E tv \in RawTokens, acc \in BOOLEAN, f \in {"none", "blacklist_token"} :
        BlacklistToken(tv, acc, f)

TokenExpireStep == \E t \in TokenValues : ProviderExpire(t)

TokenNext == TokenValidateStep \/ TokenBlacklistStep \/ TokenExpireStep


(***************************************************************************)
(* Metadata mappings and the UserContext                                   *)
(***************************************************************************)
\* A key of a metadata dict is <<>> when absent and <<v>> when it holds v.
\* A permissions mapping is the names mapped to true and those mapped to false.
NoneId == "None"
RoleValues == {"customer", "owner"}
QueryRoles == {"customer", "manager", "owner"}
RestaurantIds == {"X", "Y"}
PermNames == {"manage_menu"}
QueryPerms == {"manage_menu", "view_analytics"}
PermMaps == {m \in [granted : SUBSET PermNames, denied : SUBSET PermNames] :
                m.granted \cap m.denied = {}}
EmptyPerms == [granted |-> {}, denied |-> {}]

Opt(S) == {<<>>} \cup {<<v>> : v \in S}

Metadata == [role : Opt(RoleValues), restaurant_id : Opt(RestaurantIds),
             permissions : Opt({EmptyPerms, [granted |-> PermNames, denied |-> {}]})]
EmptyMetadata == [role |-> <<>>, restaurant_id |-> <<>>, permissions |-> <<>>]

\* dict.get(key, default)
Get(entry, default) == IF entry = <<>> THEN default ELSE entry[1]

\* UserContext.__init__ / User.__init__ (the fields the predicates read)
UserContext(role, restaurant_id, permissions) ==
    [role |-> role, restaurant_id |-> restaurant_id, permissions |-> permissions]

(***************************************************************************)
(* get_current_user                                                        *)
(***************************************************************************)
\* custom_claims: the token's app_metadata, or {} when the token cannot be decoded.
custom_claims(app, canDecode) == IF canDecode THEN app ELSE EmptyMetadata

\* A variant in which the user's own metadata wins over the provider's claims.
get_current_user_profile_first(claims, user_metadata) ==
    UserContext(Get(user_metadata.role, Get(claims.role, "customer")),
                Get(user_metadata.restaurant_id, Get(claims.restaurant_id, NoneId)),
                Get(user_metadata.permissions, Get(claims.permissions, EmptyPerms)))

get_current_user(claims, user_metadata) ==
    UserContext(Get(claims.role, Get(user_metadata.role, "customer")),
                Get(claims.restaurant_id, Get(user_metadata.restaurant_id, NoneId)),
                Get(claims.permissions, Get(user_metadata.permissions, EmptyPerms)))

\* SupabaseAuthRepository.sign_up_with_email: the user_metadata stored at
\* sign-up holds the role of the request, and restaurant_id when one is given.
sign_up_user_data(role, restaurant_id) ==
    [role |-> <<role>>,
     restaurant_id |-> IF restaurant_id = NoneId THEN <<>> ELSE <<restaurant_id>>,
     permissions |-> <<>>]

(***************************************************************************)
(* Role, permission and tenant predicates (User and UserContext)           *)
(***************************************************************************)
InList(x, list) == \E i \in 1..Len(list) : list[i] = x

\* dict.get(permission, False) on a permissions mapping
PermGet(permissions, permission) == permission \in permissions.granted

UserContext_has_role(self, required_role) ==
    self.role = required_role \/ self.role = "owner"

UserContext_has_any_role(self, roles) ==
    InList(self.role, roles) \/ self.role = "owner"

\* A variant without the owner override.
UserContext_has_permission_no_owner(self, permission) ==
    PermGet(self.permissions, permission)

UserContext_has_permission(self, permission) ==
    IF self.role = "owner" THEN TRUE ELSE PermGet(self.permissions, permission)

\* A variant in which an owner may access every restaurant.
UserContext_can_access_restaurant_owner(self, target_restaurant_id) ==
    IF target_restaurant_id = NoneId \/ self.role = "owner" THEN TRUE
    ELSE self.restaurant_id = target_restaurant_id

UserContext_can_access_restaurant(self, target_restaurant_id) ==
    IF target_restaurant_id = NoneId THEN TRUE
    ELSE self.restaurant_id = target_restaurant_id

User_has_role(self, required_role) ==
    self.role = required_role \/ self.role = "owner"

User_has_any_role(self, allowed_roles) ==
    InList(self.role, allowed_roles) \/ self.role = "owner"

User_has_permission(self, permission) ==
    IF self.role = "owner" THEN TRUE ELSE PermGet(self.permissions, permission)

User_can_access_restaurant(self, target_restaurant_id) ==
    IF target_restaurant_id = NoneId THEN TRUE
    ELSE self.restaurant_id = target_restaurant_id

\* What a route guard can learn from a context.
Answers(ctx) ==
    [has_role |-> {r \in QueryRoles : UserContext_has_role(ctx, r)},
     has_permission |-> {p \in QueryPerms : UserContext_has_permission(ctx, p)},
     can_access_restaurant |->
        {t \in RestaurantIds \cup {NoneId} : UserContext_can_access_restaurant(ctx, t)}]

(***************************************************************************)
(* Authorization context: state machine                                    *)
(***************************************************************************)
NoRequest == [made |-> FALSE, user_metadata |-> EmptyMetadata,
              ctx |-> UserContext("customer", NoneId, EmptyPerms)]
NoUser == [exists |-> FALSE, data |-> EmptyMetadata]

AuthzIdle ==
    /\ appMeta = EmptyMetadata
    /\ decodable = TRUE
    /\ userMeta = NoUser
    /\ lastReq = NoRequest

\* The provider's claims for the user are set by the platform, not the user.
AuthzInit ==
    /\ appMeta \in Metadata
    /\ decodable \in BOOLEAN
    /\ userMeta = NoUser
    /\ lastReq = NoRequest

SignUp(role, restaurant_id) ==
    /\ ~userMeta.exists
    /\ userMeta' = [exists |-> TRUE, data |-> sign_up_user_data(role, restaurant_id)]
    /\ UNCHANGED <<appMeta, decodable, lastReq>>
    /\ UNCHANGED otherThanAuthz

\* A user created by the first OTP verification has no role in user_metadata.
PhoneSignUp ==
    /\ ~userMeta.exists
    /\ userMeta' = [exists |-> TRUE, data |-> EmptyMetadata]
    /\ UNCHANGED <<appMeta, decodable, lastReq>>
    /\ UNCHANGED otherThanAuthz

\* update_user_metadata: the user edits one key of their own profile metadata.
UpdateUserMetadata(key, entry) ==
    /\ userMeta.exists
    /\ userMeta' = [userMeta EXCEPT !.data[key] = entry]
    /\ UNCHANGED <<appMeta, decodable, lastReq>>
    /\ UNCHANGED otherThanAuthz

GetCurrentUser ==
    /\ userMeta.exists
    /\ lastReq' = [made |-> TRUE, user_metadata |-> userMeta.data,
                   ctx |-> get_current_user(custom_claims(appMeta, decodable),
                                            userMeta.data)]
    /\ UNCHANGED <<appMeta, decodable, userMeta>>
    /\ UNCHANGED otherThanAuthz

AuthzSignUpStep ==
    \E r \in RoleValues, rid \in RestaurantIds \cup {NoneId} : SignUp(r, rid)

AuthzUpdateStep ==
    \/ \E r \in RoleValues : UpdateUserMetadata("role", <<r>>)
    \/ \E rid \in RestaurantIds : UpdateUserMetadata("restaurant_id", <<rid>>)
    \/ \E p \in {EmptyPerms, [granted |-> PermNames, denied |-> {}]} :
            UpdateUserMetadata("permissions", <<p>>)

AuthzNext == AuthzSignUpStep \/ PhoneSignUp \/ AuthzUpdateStep \/ GetCurrentUser


(***************************************************************************)
(* Predicates: state machine                                               *)
(***************************************************************************)
RECURSIVE RoleLists(_)
RoleLists(n) ==
    IF n = 0 THEN {<<>>}
    ELSE LET shorter == RoleLists(n - 1)
         IN  shorter \cup {Append(l, r) : l \in shorter, r \in QueryRoles}

NoAnswers == [has_role |-> FALSE, has_any_role |-> FALSE,
              has_permission |-> FALSE, can_access_restaurant |-> FALSE]

NoCheck == [made |-> FALSE, self |-> UserContext("customer", NoneId, EmptyPerms),
            required_role |-> "customer", roles |-> <<>>,
            permission |-> "manage_menu", target |-> NoneId,
            user |-> NoAnswers, context |-> NoAnswers]

PredIdle == authzCheck = NoCheck

\* An entity and the arguments of the predicates, not yet evaluated.
PredInit ==
    \E role \in QueryRoles, rid \in RestaurantIds \cup {NoneId}, perms \in PermMaps,
       rr \in QueryRoles, roles \in RoleLists(MaxRoleList), perm \in QueryPerms,
       target \in RestaurantIds \cup {NoneId} :
        authzCheck = [made |-> FALSE, self |-> UserContext(role, rid, perms),
                      required_role |-> rr, roles |-> roles, permission |-> perm,
                      target |-> target, user |-> NoAnswers, context |-> NoAnswers]

\* The predicates of a User and of a UserContext holding the same role,
\* restaurant_id and permissions are evaluated on the same arguments.
CheckPredicates ==
    /\ ~authzCheck.made
    /\ authzCheck' =
        LET self == authzCheck.self
            required_role == authzCheck.required_role
            roles == authzCheck.roles
            permission == authzCheck.permission
            target == authzCheck.target
        IN [authzCheck EXCEPT
             !.made = TRUE,
             !.user = [has_role |-> User_has_role(self, required_role),
                       has_any_role |-> User_has_any_role(self, roles),
                       has_permission |-> User_has_permission(self, permission),
                       can_access_restaurant |->
                           User_can_access_restaurant(self, target)],
             !.context = [has_role |-> UserContext_has_role(self, required_role),
                          has_any_role |-> UserContext_has_any_role(self, roles),
                          has_permission |->
                              UserContext_has_permission(self, permission),
                          can_access_restaurant |->
                              UserContext_can_access_restaurant(self, target)]]
    /\ UNCHANGED otherThanPred

PredNext == CheckPredicates

(***************************************************************************)
(* SignOutUseCase.execute                                                  *)
(***************************************************************************)
ContextKinds == {"none", "anonymous", "authenticated"}
SignOutBehaviours == {"true", "false", "raise"}

\* A variant that lets the repository's exception reach the caller.
SignOutExecutePropagating(contextKind, behaviour) ==
    IF contextKind = "authenticated"
    THEN IF behaviour = "raise"
         THEN Outcome("AuthenticationError", "Sign out failed", <<"sign_out">>)
         ELSE Outcome("SignOutResponseDTO", "Signed out successfully", <<"sign_out">>)
    ELSE Outcome("SignOutResponseDTO", "Signed out successfully", <<>>)

\* A variant that asks the repository to sign out whenever a context is
\* present, anonymous or not.
SignOutExecuteAnyContext(contextKind, behaviour) ==
    IF contextKind # "none"
    THEN Outcome("SignOutResponseDTO", "Signed out successfully", <<"sign_out">>)
    ELSE Outcome("SignOutResponseDTO", "Signed out successfully", <<>>)

\* The arguments of the repository's sign_out, when it is called:
\* `await self._auth_repository.sign_out(user_context.user_id)`.
SignOutArguments(contextKind, user_id) ==
    IF contextKind = "authenticated" THEN <<user_id>> ELSE <<>>

\* The repository is called for an authenticated, non-anonymous context only;
\* whatever it returns or raises, the success DTO is returned.
SignOutExecute(contextKind, behaviour) ==
    IF contextKind = "authenticated"
    THEN CASE behaviour = "true" ->
                Outcome("SignOutResponseDTO", "Signed out successfully", <<"sign_out">>)
           [] behaviour = "false" ->
                Outcome("SignOutResponseDTO", "Signed out successfully", <<"sign_out">>)
           [] behaviour = "raise" ->
                Outcome("SignOutResponseDTO", "Signed out successfully", <<"sign_out">>)
    ELSE Outcome("SignOutResponseDTO", "Signed out successfully", <<>>)

(***************************************************************************)
(* The cached provider client                                              *)
(***************************************************************************)
Users == {"A", "B"}

\* supabase.auth.sign_in_with_password on the cached client: the provider
\* opens a session for the user and the client keeps it as its own.
client_sign_in(srv, user) ==
    [srv |-> Append(srv, [user |-> user, live |-> TRUE]), held |-> Len(srv) + 1]

\* supabase.auth.sign_out() on the cached client: it is given no user and no
\* token; it ends the session the client holds and forgets it.
client_sign_out(srv, held) ==
    [srv |-> IF held = 0 THEN srv ELSE [srv EXCEPT ![held].live = FALSE],
     held |-> 0,
     ended |-> IF held # 0 /\ srv[held].live THEN {held} ELSE {}]

(***************************************************************************)
(* Sign-in and sign-out: state machine                                     *)
(***************************************************************************)
NoSignOut == [op |-> "none", by |-> "none", bearer |-> 0, contextKind |-> "none",
              behaviour |-> "true", ended |-> {}, out |-> Outcome("none", "", <<>>),
              arguments |-> <<>>]

ClientIdle ==
    /\ srvSessions = <<>>
    /\ clientSession = 0
    /\ soLast = NoSignOut

\* get_supabase_anon: one client, created at first use, holding no session.
ClientInit == ClientIdle

\* POST /auth/signin/email for a user whose credentials the provider accepts.
RouterSignIn(user) ==
    /\ Len(srvSessions) < MaxSignIns
    /\ LET r == client_sign_in(srvSessions, user) IN
        /\ srvSessions' = r.srv
        /\ clientSession' = r.held
    /\ UNCHANGED soLast
    /\ UNCHANGED otherThanClient

\* POST /auth/signout with the access token of session `bearer` of `user`
\* (get_current_user_optional accepts it while the session is live).
RouterSignOut(user, bearer) ==
    /\ bearer \in 1..Len(srvSessions)
    /\ srvSessions[bearer].user = user
    /\ srvSessions[bearer].live
    /\ LET r == client_sign_out(srvSessions, clientSession) IN
        /\ srvSessions' = r.srv
        /\ clientSession' = r.held
        /\ soLast' = [op |-> "RouterSignOut", by |-> user, bearer |-> bearer,
                      contextKind |-> "authenticated", behaviour |-> "true",
                      ended |-> r.ended,
                      out |-> Outcome("dict", "Signed out successfully", <<>>),
                      arguments |-> <<>>]
    /\ UNCHANGED otherThanClient

\* SignOutUseCase.execute over a repository whose sign_out returns true after
\* signing out through the cached client (SupabaseAuthRepository.sign_out),
\* returns false, or raises.
UseCaseSignOut(user, contextKind, behaviour) ==
    /\ contextKind = "authenticated" =>
            \E sid \in 1..Len(srvSessions) :
                srvSessions[sid].user = user /\ srvSessions[sid].live
    /\ LET out == SignOutExecute(contextKind, behaviour)
           reached == out.calls # <<>> /\ behaviour = "true"
           r == IF reached THEN client_sign_out(srvSessions, clientSession)
                ELSE [srv |-> srvSessions, held |-> clientSession, ended |-> {}]
       IN
        /\ srvSessions' = r.srv
        /\ clientSession' = r.held
        /\ soLast' = [op |-> "SignOutUseCase", by |-> user, bearer |-> 0,
                      contextKind |-> contextKind, behaviour |-> behaviour,
                      ended |-> r.ended, out |-> out,
                      arguments |-> SignOutArguments(contextKind, user)]
    /\ UNCHANGED otherThanClient

ClientSignInStep == \E u \in Users : RouterSignIn(u)

ClientRouterSignOutStep ==
    \E u \in Users, b \in 1..MaxSignIns : RouterSignOut(u, b)

ClientUseCaseSignOutStep ==
    \E u \in Users, k \in ContextKinds, b \in SignOutBehaviours :
        UseCaseSignOut(u, k, b)

ClientNext == ClientSignInStep \/ ClientRouterSignOutStep \/ ClientUseCaseSignOutStep

(***************************************************************************)
(* AuthSession and AnonymousSession expiry                                 *)
(***************************************************************************)
\* expires_at is <<>> when unset and <<t>> when set to time t.
AuthSession_is_expired(expires_at, utcnow) ==
    IF expires_at = <<>> THEN FALSE ELSE utcnow > expires_at[1]

AuthSession_is_valid(expires_at, utcnow) == ~AuthSession_is_expired(expires_at, utcnow)

AnonymousSession_is_expired(expires_at, utcnow) ==
    IF expires_at = <<>> THEN FALSE ELSE utcnow > expires_at[1]

AnonymousSession_is_valid(expires_at, utcnow) ==
    ~AnonymousSession_is_expired(expires_at, utcnow)

(***************************************************************************)
(* ISessionRepository                                                      *)
(***************************************************************************)
WellFormedUuids == RestaurantIds \cup {"T1"}
RestaurantInputs == RestaurantIds \cup {"not-a-uuid"}
TableInputs == {NoneId, "", "T1", "not-a-uuid"}

\* The token the repository mints for the session with this id.
SessionTokenOf(id) == [i \in 1..id |-> "a"]

\* create_anonymous_session: a new row, expiring expires_hours from now.
create_anonymous_session(store, restaurant_id, table_id, expires_hours, utcnow) ==
    Append(store, [session_token |-> SessionTokenOf(Len(store) + 1),
                   restaurant_id |-> restaurant_id, table_id |-> table_id,
                   expires_at |-> <<utcnow + expires_hours>>, stored |-> TRUE])

\* get_anonymous_session: the row if found (expired or not), None otherwise.
Found(store, session_id) == session_id \in 1..Len(store) /\ store[session_id].stored

\* validate_anonymous_session: true for the token of a stored, unexpired row.
validate_anonymous_session(store, token, utcnow) ==
    \E id \in 1..Len(store) :
        /\ store[id].stored
        /\ store[id].session_token = token
        /\ ~AnonymousSession_is_expired(store[id].expires_at, utcnow)

\* invalidate_anonymous_session: removes the row; true if there was one.
invalidate_anonymous_session(store, session_id) ==
    IF Found(store, session_id)
    THEN [ret |-> TRUE, store |-> [store EXCEPT ![session_id].stored = FALSE]]
    ELSE [ret |-> FALSE, store |-> store]

\* cleanup_expired_sessions: removes the rows whose expires_at has passed.
cleanup_expired_sessions(store, utcnow) ==
    LET gone == {id \in 1..Len(store) :
                    /\ store[id].stored
                    /\ AnonymousSession_is_expired(store[id].expires_at, utcnow)}
    IN  [ret |-> Cardinality(gone),
         store |-> [id \in 1..Len(store) |->
                        IF id \in gone THEN [store[id] EXCEPT !.stored = FALSE]
                        ELSE store[id]]]

(***************************************************************************)
(* Anonymous session use cases                                             *)
(***************************************************************************)
\* CreateAnonymousSessionUseCase._is_valid_uuid
is_valid_uuid(uuid_string) == uuid_string \in WellFormedUuids

\* Python truthiness of an Optional[str]
Truthy(str) == str # NoneId /\ str # ""

\* SessionToken.__init__ has the checks of Token.__init__.
SessionToken(value) == Token(value)

\* The response DTO built from the session entity the repository returned.
NoDTO == [session_id |-> 0, session_token |-> <<>>,
          restaurant_id |-> NoneId, table_id |-> NoneId]

AnonymousSessionResponseDTO(session_id, session) ==
    [session_id |-> session_id, session_token |-> session.session_token,
     restaurant_id |-> session.restaurant_id, table_id |-> session.table_id]

\* A variant that asks the repository for a shorter time-to-live.
CreateAnonymousSessionShortLived(store, restaurant_id, table_id, utcnow, fault) ==
    IF ~is_valid_uuid(restaurant_id) \/ (Truthy(table_id) /\ ~is_valid_uuid(table_id))
    THEN [out |-> Outcome("MultiTenantViolationError", "Invalid ID format", <<>>),
          dto |-> NoDTO, store |-> store]
    ELSE IF fault
    THEN [out |-> Outcome("AuthenticationError", "Failed to create anonymous session",
                          <<"create_anonymous_session">>),
          dto |-> NoDTO, store |-> store]
    ELSE LET created == create_anonymous_session(store, restaurant_id, table_id,
                                                 TickHours, utcnow)
         IN  [out |-> Outcome("AnonymousSessionResponseDTO", "",
                              <<"create_anonymous_session">>),
              dto |-> AnonymousSessionResponseDTO(Len(created), created[Len(created)]),
              store |-> created]

CreateAnonymousSessionExecute(store, restaurant_id, table_id, utcnow, fault) ==
    IF ~is_valid_uuid(restaurant_id)
    THEN [out |-> Outcome("MultiTenantViolationError",
                          "Invalid restaurant ID format", <<>>),
          dto |-> NoDTO, store |-> store]
    ELSE IF Truthy(table_id) /\ ~is_valid_uuid(table_id)
    THEN [out |-> Outcome("MultiTenantViolationError",
                          "Invalid table ID format", <<>>),
          dto |-> NoDTO, store |-> store]
    ELSE IF fault
    THEN [out |-> Outcome("AuthenticationError", "Failed to create anonymous session",
                          <<"create_anonymous_session">>),
          dto |-> NoDTO, store |-> store]
    ELSE LET created == create_anonymous_session(store, restaurant_id, table_id,
                                                 DefaultExpiresHours, utcnow)
         IN  [out |-> Outcome("AnonymousSessionResponseDTO", "",
                              <<"create_anonymous_session">>),
              dto |-> AnonymousSessionResponseDTO(Len(created), created[Len(created)]),
              store |-> created]

\* A variant that asks the repository before it looks at the token's format.
ValidateAnonymousSessionLookupFirst(store, session_token, utcnow, fault) ==
    LET token == SessionToken(session_token) IN
    IF fault \/ ~token.ok
    THEN Outcome("AuthenticationError", "Session validation failed",
                 <<"validate_anonymous_session">>)
    ELSE IF validate_anonymous_session(store, token.value, utcnow)
    THEN Outcome("True", "", <<"validate_anonymous_session">>)
    ELSE Outcome("False", "", <<"validate_anonymous_session">>)

\* Every exception raised inside, the format error included, leaves as the
\* generic AuthenticationError("Session validation failed").
ValidateAnonymousSessionExecute(store, session_token, utcnow, fault) ==
    LET token == SessionToken(session_token) IN
    IF ~token.ok
    THEN Outcome("AuthenticationError", "Session validation failed", <<>>)
    ELSE IF fault
    THEN Outcome("AuthenticationError", "Session validation failed",
                 <<"validate_anonymous_session">>)
    ELSE IF validate_anonymous_session(store, token.value, utcnow)
    THEN Outcome("True", "", <<"validate_anonymous_session">>)
    ELSE Outcome("False", "", <<"validate_anonymous_session">>)

\* A variant that raises for an expired session instead of returning None.
GetAnonymousSessionRaising(store, session_id, utcnow, fault) ==
    IF fault
    THEN [out |-> Outcome("AuthenticationError", "Failed to retrieve session",
                          <<"get_anonymous_session">>), dto |-> NoDTO]
    ELSE IF ~Found(store, session_id)
    THEN [out |-> Outcome("None", "session_not_found", <<"get_anonymous_session">>),
          dto |-> NoDTO]
    ELSE IF AnonymousSession_is_expired(store[session_id].expires_at, utcnow)
    THEN [out |-> Outcome("SessionExpiredError", "session_expired",
                          <<"get_anonymous_session">>), dto |-> NoDTO]
    ELSE [out |-> Outcome("AnonymousSessionResponseDTO", "",
                          <<"get_anonymous_session">>),
          dto |-> AnonymousSessionResponseDTO(session_id, store[session_id])]

GetAnonymousSessionExecute(store, session_id, utcnow, fault) ==
    IF fault
    THEN [out |-> Outcome("AuthenticationError", "Failed to retrieve session",
                          <<"get_anonymous_session">>), dto |-> NoDTO]
    ELSE IF ~Found(store, session_id)
    THEN [out |-> Outcome("None", "session_not_found", <<"get_anonymous_session">>),
          dto |-> NoDTO]
    ELSE IF AnonymousSession_is_expired(store[session_id].expires_at, utcnow)
    THEN [out |-> Outcome("None", "session_expired", <<"get_anonymous_session">>),
          dto |-> NoDTO]
    ELSE [out |-> Outcome("AnonymousSessionResponseDTO", "",
                          <<"get_anonymous_session">>),
          dto |-> AnonymousSessionResponseDTO(session_id, store[session_id])]

InvalidateAnonymousSessionExecute(store, session_id, fault) ==
    IF fault
    THEN [out |-> Outcome("AuthenticationError", "Failed to invalidate session",
                          <<"invalidate_anonymous_session">>), store |-> store]
    ELSE LET r == invalidate_anonymous_session(store, session_id) IN
         [out |-> Outcome(IF r.ret THEN "True" ELSE "False", "",
                          <<"invalidate_anonymous_session">>), store |-> r.store]

CleanupExpiredSessionsExecute(store, utcnow, fault) ==
    IF fault
    THEN [out |-> Outcome("AuthenticationError", "Failed to cleanup expired sessions",
                          <<"cleanup_expired_sessions">>), count |-> 0, store |-> store]
    ELSE LET r == cleanup_expired_sessions(store, utcnow) IN
         [out |-> Outcome("int", "", <<"cleanup_expired_sessions">>),
          count |-> r.ret, store |-> r.store]

\* A variant that writes the new expiry for every session it finds.
ExtendAnonymousSessionAlways(store, session_id, extend_hours, utcnow, fault) ==
    IF fault
    THEN [out |-> Outcome("AuthenticationError", "Failed to extend session",
                          <<"get_anonymous_session">>), store |-> store]
    ELSE IF ~Found(store, session_id)
    THEN [out |-> Outcome("SessionNotFoundError", "Session not found",
                          <<"get_anonymous_session">>), store |-> store]
    ELSE [out |-> Outcome("True", "", <<"get_anonymous_session">>),
          store |-> [store EXCEPT ![session_id].expires_at = <<utcnow + extend_hours>>]]

\* A variant that removes the expired session it refuses to extend.
ExtendAnonymousSessionPurging(store, session_id, extend_hours, utcnow, fault) ==
    IF fault
    THEN [out |-> Outcome("AuthenticationError", "Failed to extend session",
                          <<"get_anonymous_session">>), store |-> store]
    ELSE IF ~Found(store, session_id)
    THEN [out |-> Outcome("SessionNotFoundError", "Session not found",
                          <<"get_anonymous_session">>), store |-> store]
    ELSE IF AnonymousSession_is_expired(store[session_id].expires_at, utcnow)
    THEN [out |-> Outcome("SessionExpiredError", "Cannot extend expired session",
                          <<"get_anonymous_session", "invalidate_anonymous_session">>),
          store |-> invalidate_anonymous_session(store, session_id).store]
    ELSE [out |-> Outcome("True", "", <<"get_anonymous_session">>), store |-> store]

\* The use case reads the session and checks it; it issues no repository write.
ExtendAnonymousSessionExecute(store, session_id, extend_hours, utcnow, fault) ==
    IF fault
    THEN [out |-> Outcome("AuthenticationError", "Failed to extend session",
                          <<"get_anonymous_session">>), store |-> store]
    ELSE IF ~Found(store, session_id)
    THEN [out |-> Outcome("SessionNotFoundError", "Session not found",
                          <<"get_anonymous_session">>), store |-> store]
    ELSE IF AnonymousSession_is_expired(store[session_id].expires_at, utcnow)
    THEN [out |-> Outcome("SessionExpiredError", "Cannot extend expired session",
                          <<"get_anonymous_session">>), store |-> store]
    ELSE [out |-> Outcome("True", "", <<"get_anonymous_session">>), store |-> store]

(***************************************************************************)
(* Anonymous sessions: state machine                                       *)
(***************************************************************************)
NoAnonOp == [op |-> "none", session_id |-> 0, token |-> <<>>,
             restaurant_id |-> NoneId, table_id |-> NoneId, hours |-> 0,
             count |-> 0, out |-> Outcome("none", "", <<>>), dto |-> NoDTO]

NoExpiryCheck == [made |-> FALSE, class |-> "AuthSession", expires_at |-> <<>>,
                  is_expired |-> FALSE, is_valid |-> FALSE]

AnonIdle ==
    /\ now = 0
    /\ anonStore = <<>>
    /\ anonLast = NoAnonOp
    /\ expiryCheck = NoExpiryCheck

AnonInit == AnonIdle

\* The clock never goes back. The records of the last use case and of the
\* last evaluation are those of the current instant.
Tick ==
    /\ now + TickHours <= MaxTime
    /\ now' = now + TickHours
    /\ anonLast' = NoAnonOp
    /\ expiryCheck' = NoExpiryCheck
    /\ UNCHANGED anonStore
    /\ UNCHANGED otherThanAnon

AnonOp(op, session_id, token, restaurant_id, table_id, hours, count, out) ==
    [op |-> op, session_id |-> session_id, token |-> token,
     restaurant_id |-> restaurant_id, table_id |-> table_id, hours |-> hours,
     count |-> count, out |-> out, dto |-> NoDTO]

CreateAnonymousSession(restaurant_id, table_id, fault) ==
    /\ Len(anonStore) < MaxAnonSessions
    /\ LET r == CreateAnonymousSessionExecute(anonStore, restaurant_id, table_id,
                                              now, fault) IN
        /\ anonStore' = r.store
        /\ anonLast' = [AnonOp("Create", Len(r.store), <<>>, restaurant_id, table_id,
                               DefaultExpiresHours, 0, r.out) EXCEPT !.dto = r.dto]
    /\ UNCHANGED <<now, expiryCheck>>
    /\ UNCHANGED otherThanAnon

ValidateAnonymousSession(session_token, fault) ==
    /\ anonLast' = AnonOp("Validate", 0, session_token, NoneId, NoneId, 0, 0,
                          ValidateAnonymousSessionExecute(anonStore, session_token,
                                                          now, fault))
    /\ UNCHANGED <<now, anonStore, expiryCheck>>
    /\ UNCHANGED otherThanAnon

GetAnonymousSession(session_id, fault) ==
    /\ LET r == GetAnonymousSessionExecute(anonStore, session_id, now, fault) IN
        anonLast' = [AnonOp("Get", session_id, <<>>, NoneId, NoneId, 0, 0, r.out)
                        EXCEPT !.dto = r.dto]
    /\ UNCHANGED <<now, anonStore, expiryCheck>>
    /\ UNCHANGED otherThanAnon

InvalidateAnonymousSession(session_id, fault) ==
    /\ LET r == InvalidateAnonymousSessionExecute(anonStore, session_id, fault) IN
        /\ anonStore' = r.store
        /\ anonLast' = AnonOp("Invalidate", session_id, <<>>, NoneId, NoneId, 0, 0, r.out)
    /\ UNCHANGED <<now, expiryCheck>>
    /\ UNCHANGED otherThanAnon

CleanupExpiredSessions(fault) ==
    /\ LET r == CleanupExpiredSessionsExecute(anonStore, now, fault) IN
        /\ anonStore' = r.store
        /\ anonLast' = AnonOp("Cleanup", 0, <<>>, NoneId, NoneId, 0, r.count, r.out)
    /\ UNCHANGED <<now, expiryCheck>>
    /\ UNCHANGED otherThanAnon

ExtendAnonymousSession(session_id, extend_hours, fault) ==
    /\ LET r == ExtendAnonymousSessionExecute(anonStore, session_id, extend_hours,
                                              now, fault) IN
        /\ anonStore' = r.store
        /\ anonLast' = AnonOp("Extend", session_id, <<>>, NoneId, NoneId,
                              extend_hours, 0, r.out)
    /\ UNCHANGED <<now, expiryCheck>>
    /\ UNCHANGED otherThanAnon

\* is_expired() and is_valid() of a session entity with this expires_at.
CheckExpiry(class, expires_at) ==
    /\ expiryCheck' =
        [made |-> TRUE, class |-> class, expires_at |-> expires_at,
         is_expired |-> IF class = "AuthSession"
                        THEN AuthSession_is_expired(expires_at, now)
                        ELSE AnonymousSession_is_expired(expires_at, now),
         is_valid |-> IF class = "AuthSession"
                      THEN AuthSession_is_valid(expires_at, now)
                      ELSE AnonymousSession_is_valid(expires_at, now)]
    /\ UNCHANGED <<now, anonStore, anonLast>>
    /\ UNCHANGED otherThanAnon

SessionIds == 1..MaxAnonSessions
ExtendHours == {TickHours, DefaultExpiresHours}

AnonCreateStep ==
    \E rid \in RestaurantInputs, tid \in TableInputs, f \in BOOLEAN :
        CreateAnonymousSession(rid, tid, f)
AnonValidateStep == \E tv \in RawTokens, f \in BOOLEAN : ValidateAnonymousSession(tv, f)
AnonGetStep == \E sid \in SessionIds, f \in BOOLEAN : GetAnonymousSession(sid, f)
AnonInvalidateStep ==
    \E sid \in SessionIds, f \in BOOLEAN : InvalidateAnonymousSession(sid, f)
AnonCleanupStep == \E f \in BOOLEAN : CleanupExpiredSessions(f)
AnonExtendStep ==
    \E sid \in SessionIds, h \in ExtendHours, f \in BOOLEAN :
        ExtendAnonymousSession(sid, h, f)
ExpiryCheckStep ==
    \E c \in {"AuthSession", "AnonymousSession"}, e \in Opt(0..MaxTime) :
        CheckExpiry(c, e)

AnonNext ==
    \/ Tick
    \/ AnonCreateStep
    \/ AnonValidateStep
    \/ AnonGetStep
    \/ AnonInvalidateStep
    \/ AnonCleanupStep
    \/ AnonExtendStep

ExpiryNext == Tick \/ ExpiryCheckStep

(***************************************************************************)
(* Email value object                                                      *)
(***************************************************************************)
Letters == {"a", "A"}
LocalChars == Letters \cup {"."}
DomainChars == Letters \cup {"."}

AllIn(s, from, to, chars) == \A k \in from..to : s[k] \in chars

\* Email._is_valid_email: re.match of
\* ^[a-zA-Z0-9._%+-]+@[a-zA-Z0-9.-]+\.[a-zA-Z]{2,}$ on the raw value, with
\* the "@" at position i and the dot before the top-level domain at j.
is_valid_email(email) ==
    \E i \in 1..Len(email), j \in 1..Len(email) :
        /\ email[i] = "@"
        /\ email[j] = "."
        /\ i > 1 /\ AllIn(email, 1, i - 1, LocalChars)
        /\ j > i + 1 /\ AllIn(email, i + 1, j - 1, DomainChars)
        /\ Len(email) >= j + 2 /\ AllIn(email, j + 1, Len(email), Letters)

\* str.lower()
LowerCase(c) ==
    CASE c = "A" -> "a" [] c = "D" -> "d" [] c = "E" -> "e" [] c = "I" -> "i"
      [] c = "P" -> "p" [] c = "R" -> "r" [] c = "X" -> "x" [] OTHER -> c

lower(s) == [k \in 1..Len(s) |-> LowerCase(s[k])]

\* Email.__init__: ValueError when the raw value does not match, else the
\* lower-cased, stripped value is stored.
Email(value) ==
    IF ~is_valid_email(value)
    THEN [ok |-> FALSE, value |-> <<>>]
    ELSE [ok |-> TRUE, value |-> strip(lower(value))]

EmailInputs ==
    { <<"a", "@", "a", ".", "a", "a">>,
      <<"A", "@", "a", ".", "a", "a">>,
      <<"a", "@", "a", ".", "a">>,
      <<" ", "a", "@", "a", ".", "a", "a">>,
      <<>> }

\* Passwords are told apart by their length only.
PasswordLens == {MinPasswordLength - 1, MinPasswordLength, MaxPasswordLen}
Passwords == {[k \in 1..n |-> "p"] : n \in PasswordLens}

(***************************************************************************)
(* IAuthRepository as the email use cases see it                           *)
(***************************************************************************)
\* AuthenticationResult(success, user, session, error_message); session is
\* <<>> or <<[access_token, refresh_token]>>, refresh_token <<>> when absent.
AuthenticationResult(success, has_user, session, error_message) ==
    [success |-> success, has_user |-> has_user, session |-> session,
     error_message |-> error_message]

AuthSession(refresh_token) ==
    [access_token |-> "access-1", refresh_token |-> refresh_token]

AuthResults ==
    { AuthenticationResult(TRUE, TRUE, <<AuthSession(<<"refresh-1">>)>>, <<>>),
      AuthenticationResult(TRUE, TRUE, <<AuthSession(<<>>)>>, <<>>),
      AuthenticationResult(TRUE, TRUE, <<>>, <<>>),
      AuthenticationResult(FALSE, FALSE, <<>>, <<"provider text">>),
      AuthenticationResult(FALSE, FALSE, <<>>, <<>>) }

\* What a repository call does: it returns a result, or raises an exception
\* of one of these classes.
RepositoryExceptions ==
    {"Exception", "AuthenticationError", "InvalidCredentialsError",
     "UserAlreadyExistsError"}

RepositoryBehaviours ==
    {[raises |-> "none", result |-> r] : r \in AuthResults}
        \cup {[raises |-> e, result |-> AuthenticationResult(FALSE, FALSE, <<>>, <<>>)] :
                e \in RepositoryExceptions}

LookupBehaviours == {"none", "user", "raise"}

\* The User entity the repository returns for the account.
RepositoryUser(email_value, role, restaurant_id) ==
    [user_id |-> "user-1", email |-> <<email_value>>, role |-> role,
     restaurant_id |-> restaurant_id, is_active |-> TRUE]

(***************************************************************************)
(* EmailSignInUseCase.execute and EmailSignUpUseCase.execute               *)
(***************************************************************************)
NoAuthResponse ==
    [access_token |-> "", refresh_token |-> "", token_type |-> "",
     expires_in |-> -1, user |-> <<>>]

UserDTO(id, email, role, restaurant_id, is_active) ==
    [id |-> id, email |-> email, role |-> role, restaurant_id |-> restaurant_id,
     is_active |-> is_active]

user_entity_to_dto(user) ==
    UserDTO(user.user_id, user.email, user.role, user.restaurant_id, user.is_active)

AuthResponseDTO(access_token, refresh_token, expires_in, user) ==
    [access_token |-> access_token, refresh_token |-> refresh_token,
     token_type |-> "bearer", expires_in |-> expires_in, user |-> <<user>>]

\* The response built from a session: an absent refresh token becomes "".
SessionResponse(session, user) ==
    AuthResponseDTO(session.access_token,
                    IF session.refresh_token # <<>> THEN session.refresh_token[1]
                    ELSE "",
                    DefaultExpiresIn, user_entity_to_dto(user))

NoRejection == Outcome("none", "", <<>>)

\* A variant of the local checks that lets short passwords through.
EmailRequestRejectionEmailOnly(email_raw, password) ==
    IF ~Email(email_raw).ok
    THEN Outcome("InvalidEmailFormatError", "Invalid email format: {value}", <<>>)
    ELSE NoRejection

\* The local checks both use cases start with: the email's format, then
\* the password's length. The message of the format error is str(e) of the
\* ValueError, which quotes the raw value.
EmailRequestRejection(email_raw, password) ==
    IF ~Email(email_raw).ok
    THEN Outcome("InvalidEmailFormatError", "Invalid email format: {value}", <<>>)
    ELSE IF Len(password) < MinPasswordLength
    THEN Outcome("WeakPasswordError",
                 "Password must be at least 8 characters long", <<>>)
    ELSE NoRejection

\* The exceptions each use case re-raises unchanged; every other exception
\* leaves as the generic AuthenticationError.
SignInPropagated ==
    {"InvalidCredentialsError", "InvalidEmailFormatError", "WeakPasswordError"}
SignUpPropagated ==
    {"UserAlreadyExistsError", "InvalidEmailFormatError", "WeakPasswordError"}

\* A variant that reports a refused sign-in as the generic error.
EmailSignInGenericFailure(email_raw, password, behaviour) ==
    LET rejection == EmailRequestRejection(email_raw, password)
        calls == <<"sign_in_with_email">>
        result == behaviour.result
    IN  IF rejection # NoRejection THEN [out |-> rejection, dto |-> NoAuthResponse]
        ELSE IF behaviour.raises # "none" \/ ~result.success
                    \/ ~result.has_user \/ result.session = <<>>
        THEN [out |-> Outcome("AuthenticationError", "Authentication failed", calls),
              dto |-> NoAuthResponse]
        ELSE [out |-> Outcome("AuthResponseDTO", "", calls),
              dto |-> SessionResponse(result.session[1],
                                      RepositoryUser(Email(email_raw).value,
                                                     "manager", "X"))]

EmailSignInExecute(email_raw, password, behaviour) ==
    LET rejection == EmailRequestRejection(email_raw, password)
        calls == <<"sign_in_with_email">>
        result == behaviour.result
    IN  IF rejection # NoRejection THEN [out |-> rejection, dto |-> NoAuthResponse]
        ELSE IF behaviour.raises \in SignInPropagated
        THEN [out |-> Outcome(behaviour.raises, "{repository message}", calls),
              dto |-> NoAuthResponse]
        ELSE IF behaviour.raises # "none"
        THEN [out |-> Outcome("AuthenticationError", "Authentication failed", calls),
              dto |-> NoAuthResponse]
        ELSE IF ~result.success
        THEN [out |-> Outcome("InvalidCredentialsError",
                              IF result.error_message # <<>>
                              THEN result.error_message[1]
                              ELSE "Invalid email or password", calls),
              dto |-> NoAuthResponse]
        \* user_entity_to_dto(None) and None.access_token raise AttributeError
        ELSE IF ~result.has_user \/ result.session = <<>>
        THEN [out |-> Outcome("AuthenticationError", "Authentication failed", calls),
              dto |-> NoAuthResponse]
        ELSE [out |-> Outcome("AuthResponseDTO", "", calls),
              dto |-> SessionResponse(result.session[1],
                                      RepositoryUser(Email(email_raw).value,
                                                     "manager", "X"))]

\* A variant of the response that refuses an account without a session.
SignUpResponseRequiresSession(result, email_value, role, restaurant_id, calls) ==
    IF result.session = <<>>
    THEN [out |-> Outcome("AuthenticationError", "Account creation failed", calls),
          dto |-> NoAuthResponse]
    ELSE [out |-> Outcome("AuthResponseDTO", "", calls),
          dto |-> SessionResponse(result.session[1],
                                  RepositoryUser(email_value, role, restaurant_id))]

\* The response of a successful sign-up: without a session (confirmation
\* pending) empty tokens, expires_in 0 and an inactive user built from the
\* request; with a session its tokens and the mapped user.
SignUpResponse(result, email_value, role, restaurant_id, calls) ==
    LET user == RepositoryUser(email_value, role, restaurant_id) IN
    IF result.session = <<>>
    THEN [out |-> Outcome("AuthResponseDTO", "", calls),
          dto |-> AuthResponseDTO("", "", 0,
                                  UserDTO(user.user_id, user.email, role,
                                          restaurant_id, FALSE))]
    ELSE [out |-> Outcome("AuthResponseDTO", "", calls),
          dto |-> SessionResponse(result.session[1], user)]

\* Account creation, after the checks that precede it.
EmailSignUpCreate(email_value, role, restaurant_id, behaviour, calls) ==
    LET result == behaviour.result IN
    IF behaviour.raises \in SignUpPropagated
    THEN [out |-> Outcome(behaviour.raises, "{repository message}", calls),
          dto |-> NoAuthResponse]
    ELSE IF behaviour.raises # "none"
    THEN [out |-> Outcome("AuthenticationError", "Account creation failed", calls),
          dto |-> NoAuthResponse]
    \* the AuthenticationError raised for a refused creation is caught by the
    \* use case's own except Exception; so is the AttributeError on user None
    ELSE IF ~result.success \/ ~result.has_user
    THEN [out |-> Outcome("AuthenticationError", "Account creation failed", calls),
          dto |-> NoAuthResponse]
    ELSE SignUpResponse(result, email_value, role, restaurant_id, calls)

\* A variant that creates the account without looking the email up.
EmailSignUpNoLookup(email_raw, password, role, restaurant_id, lookup, behaviour) ==
    LET rejection == EmailRequestRejection(email_raw, password) IN
    IF rejection # NoRejection THEN [out |-> rejection, dto |-> NoAuthResponse]
    ELSE EmailSignUpCreate(Email(email_raw).value, role, restaurant_id, behaviour,
                           <<"sign_up_with_email">>)

EmailSignUpExecute(email_raw, password, role, restaurant_id, lookup, behaviour) ==
    LET rejection == EmailRequestRejection(email_raw, password) IN
    IF rejection # NoRejection THEN [out |-> rejection, dto |-> NoAuthResponse]
    ELSE IF lookup = "raise"
    THEN [out |-> Outcome("AuthenticationError", "Account creation failed",
                          <<"get_user_by_email">>), dto |-> NoAuthResponse]
    ELSE IF lookup = "user"
    THEN [out |-> Outcome("UserAlreadyExistsError",
                          "User with this email already exists",
                          <<"get_user_by_email">>), dto |-> NoAuthResponse]
    ELSE EmailSignUpCreate(Email(email_raw).value, role, restaurant_id, behaviour,
                           <<"get_user_by_email", "sign_up_with_email">>)

(***************************************************************************)
(* Email sign-in and sign-up: state machine                                *)
(***************************************************************************)
NoEmailOp ==
    [op |-> "none", email |-> <<>>, password |-> <<>>, role |-> "customer",
     restaurant_id |-> NoneId, lookup |-> "none",
     behaviour |-> [raises |-> "none",
                    result |-> AuthenticationResult(FALSE, FALSE, <<>>, <<>>)],
     out |-> Outcome("none", "", <<>>), dto |-> NoAuthResponse]

EmailIdle == emailLast = NoEmailOp

EmailInit == EmailIdle

EmailSignIn(email, password, behaviour) ==
    /\ LET r == EmailSignInExecute(email, password, behaviour) IN
        emailLast' = [op |-> "EmailSignIn", email |-> email, password |-> password,
                      role |-> "customer", restaurant_id |-> NoneId,
                      lookup |-> "none", behaviour |-> behaviour,
                      out |-> r.out, dto |-> r.dto]
    /\ UNCHANGED otherThanEmail

EmailSignUp(email, password, role, restaurant_id, lookup, behaviour) ==
    /\ LET r == EmailSignUpExecute(email, password, role, restaurant_id,
                                   lookup, behaviour) IN
        emailLast' = [op |-> "EmailSignUp", email |-> email, password |-> password,
                      role |-> role, restaurant_id |-> restaurant_id,
                      lookup |-> lookup, behaviour |-> behaviour,
                      out |-> r.out, dto |-> r.dto]
    /\ UNCHANGED otherThanEmail

\* name, role and restaurant_id of EmailSignUpRequestDTO
SignUpProfiles ==
    {[role |-> "customer", restaurant_id |-> NoneId],
     [role |-> "owner", restaurant_id |-> "X"]}

EmailSignInStep ==
    \E e \in EmailInputs, p \in Passwords, b \in RepositoryBehaviours :
        EmailSignIn(e, p, b)

EmailSignUpStep ==
    \E e \in EmailInputs, p \in Passwords, profile \in SignUpProfiles,
       l \in LookupBehaviours, b \in RepositoryBehaviours :
        EmailSignUp(e, p, profile.role, profile.restaurant_id, l, b)

EmailNext == EmailSignInStep \/ EmailSignUpStep

(***************************************************************************)
(* Message texts                                                           *)
(* A text is a sequence of pieces: single characters where the code looks  *)
(* inside the text, and whole phrases elsewhere.                           *)
(***************************************************************************)
expired == <<"e", "x", "p", "i", "r", "e", "d">>

\* `word in text`
Contains(text, word) ==
    \E k \in 0..(Len(text) - Len(word)) : SubSeq(text, k + 1, k + Len(word)) = word

\* The failure messages a repository reports.
FailureTexts ==
    { <<"Invalid refresh token">>,
      <<"Token has ">> \o expired,
      <<"E", "X", "P", "I", "R", "E", "D">>,
      <<"Session ", "E", "x", "p", "i", "r", "e", "d", " at noon">>,
      <<"e", "x", "p", "i", "r", "e">>,
      <<"e", "x", "p", "i", "r", "e", " ", "d">> }

\* error_message of an unsuccessful result: None, "" or a text.
FailureMessages == {<<>>, <<(<<>>)>>} \cup {<<m>> : m \in FailureTexts}

\* `error_message or default`
MessageOr(error_message, default) ==
    IF error_message = <<>> \/ error_message[1] = <<>> THEN default
    ELSE error_message[1]

(***************************************************************************)
(* TokenRefreshUseCase.execute                                             *)
(***************************************************************************)
RefreshUser == RepositoryUser("user@example.com", "customer", <<>>)

\* What refresh_session does: it raises, or returns a result.
RefreshResults ==
    { AuthenticationResult(TRUE, TRUE, <<AuthSession(<<"refresh-2">>)>>, <<>>),
      AuthenticationResult(TRUE, TRUE, <<AuthSession(<<>>)>>, <<>>),
      AuthenticationResult(TRUE, FALSE, <<AuthSession(<<"refresh-2">>)>>, <<>>),
      AuthenticationResult(TRUE, TRUE, <<>>, <<>>) }
        \cup {AuthenticationResult(FALSE, FALSE, <<>>, m) : m \in FailureMessages}

RefreshExceptions ==
    {"Exception", "AuthenticationError", "InvalidTokenError", "TokenExpiredError"}

RefreshBehaviours ==
    {[raises |-> "none", result |-> r] : r \in RefreshResults}
        \cup {[raises |-> e, result |-> AuthenticationResult(FALSE, FALSE, <<>>, <<>>)] :
                e \in RefreshExceptions}

\* A variant that looks for the word without lower-casing the message.
RefreshFailureCaseSensitive(error_message, calls) ==
    LET error_msg == MessageOr(error_message, <<"Invalid refresh token">>)
    IN  IF Contains(error_msg, expired)
        THEN Outcome("TokenExpiredError", error_msg, calls)
        ELSE Outcome("InvalidTokenError", error_msg, calls)

\* The error raised for an unsuccessful refresh_session result.
RefreshFailure(error_message, calls) ==
    LET error_msg == MessageOr(error_message, <<"Invalid refresh token">>)
    IN  IF Contains(lower(error_msg), expired)
        THEN Outcome("TokenExpiredError", error_msg, calls)
        ELSE Outcome("InvalidTokenError", error_msg, calls)

\* The result is [out, dto]; dto is <<>> unless the use case returns.
TokenRefreshExecute(refresh_token, behaviour) ==
    LET calls == <<"refresh_session">>
        result == behaviour.result
        raised(out) == [out |-> out, dto |-> <<>>]
    IN  IF refresh_token = <<>> \/ strip(refresh_token) = <<>>
        THEN raised(Outcome("InvalidTokenError", <<"Refresh token is required">>, <<>>))
        ELSE IF ~Token(refresh_token).ok
        THEN raised(Outcome("InvalidTokenError",
                            <<"Invalid refresh token format: {str(e)}">>, <<>>))
        ELSE IF behaviour.raises \in {"InvalidTokenError", "TokenExpiredError"}
        THEN raised(Outcome(behaviour.raises, <<"raised by the repository">>, calls))
        ELSE IF behaviour.raises # "none"
        THEN raised(Outcome("AuthenticationError", <<"Token refresh failed">>, calls))
        ELSE IF ~result.success
        THEN raised(RefreshFailure(result.error_message, calls))
        ELSE IF ~result.has_user \/ result.session = <<>>
        THEN \* AttributeError on None, caught by `except Exception`
             raised(Outcome("AuthenticationError", <<"Token refresh failed">>, calls))
        ELSE [out |-> Outcome("returned", <<>>, calls),
              dto |-> <<SessionResponse(result.session[1], RefreshUser)>>]

(***************************************************************************)
(* UserProfileUseCase.execute                                              *)
(***************************************************************************)
UserContextDTO(user_id, email, phone, role, restaurant_id, permissions) ==
    [user_id |-> user_id, email |-> email, phone |-> phone, role |-> role,
     restaurant_id |-> restaurant_id, permissions |-> permissions]

UserProfileResponseDTO(id, email, phone, name, role, restaurant_id, permissions, is_active) ==
    [id |-> id, email |-> email, phone |-> phone, name |-> name, role |-> role,
     restaurant_id |-> restaurant_id, permissions |-> permissions,
     is_active |-> is_active]

UserContexts ==
    { UserContextDTO("user-1", <<"ann@example.com">>, <<>>, "owner", <<"r1">>,
                     {"menu"}),
      UserContextDTO("user-2", <<>>, <<"+15550100">>, "customer", <<>>, {}),
      UserContextDTO("user-3", <<"cy@example.com">>, <<"+15550101">>, "staff",
                     <<"r2">>, {"orders"}) }

\* What get_user_by_id does: it raises, returns None, or returns a User.
FetchedUsers == {[name |-> n, is_active |-> a] : n \in {<<>>, <<"Ann">>}, a \in BOOLEAN}

ProfileLookups ==
    {[kind |-> "raise", user |-> <<>>], [kind |-> "none", user |-> <<>>]}
        \cup {[kind |-> "user", user |-> <<u>>] : u \in FetchedUsers}

\* A variant that builds the whole profile from the context and the DTO's
\* defaults.
ProfileOfContextOnly(user_context, user) ==
    UserProfileResponseDTO(user_context.user_id, user_context.email,
                           user_context.phone, <<>>, user_context.role,
                           user_context.restaurant_id, user_context.permissions,
                           TRUE)

\* The profile built from the context and the fetched User.
ProfileOf(user_context, user) ==
    UserProfileResponseDTO(user_context.user_id, user_context.email,
                           user_context.phone, user.name, user_context.role,
                           user_context.restaurant_id, user_context.permissions,
                           user.is_active)

UserProfileExecute(user_context, lookup) ==
    LET calls == <<"get_user_by_id">>
    IN  IF lookup.kind = "raise"
        THEN [out |-> Outcome("AuthenticationError",
                              <<"Failed to retrieve user profile">>, calls),
              dto |-> <<>>]
        ELSE IF lookup.user = <<>>
        THEN [out |-> Outcome("UserNotFoundError",
                              <<"User not found: ", user_context.user_id>>, calls),
              dto |-> <<>>]
        ELSE [out |-> Outcome("returned", <<>>, calls),
              dto |-> <<ProfileOf(user_context, lookup.user[1])>>]

(***************************************************************************)
(* State machine: token refresh and user profile                           *)
(***************************************************************************)
NoUcOp ==
    [use_case |-> "none", request |-> <<>>, behaviour |-> <<>>,
     out |-> Outcome("none", <<>>, <<>>), dto |-> <<>>]

UcOp(use_case, request, behaviour, res) ==
    [use_case |-> use_case, request |-> request, behaviour |-> behaviour,
     out |-> res.out, dto |-> res.dto]

UcIdle == ucLast = NoUcOp

RefreshInit == UcIdle

TokenRefresh(refresh_token, behaviour) ==
    /\ ucLast' = UcOp("TokenRefresh", refresh_token, behaviour,
                      TokenRefreshExecute(refresh_token, behaviour))
    /\ UNCHANGED otherThanUc

UserProfile(user_context, lookup) ==
    /\ ucLast' = UcOp("UserProfile", user_context, lookup,
                      UserProfileExecute(user_context, lookup))
    /\ UNCHANGED otherThanUc

TokenRefreshStep == \E t \in RawTokens, b \in RefreshBehaviours : TokenRefresh(t, b)

UserProfileStep == \E c \in UserContexts, l \in ProfileLookups : UserProfile(c, l)

RefreshNext == TokenRefreshStep \/ UserProfileStep

(***************************************************************************)
(* The HTTP application: /healthz and /protected-test                      *)
(***************************************************************************)
Response(status_code, body) == [status_code |-> status_code, body |-> body]

\* An Authorization header is absent (<<>>) or <<scheme, token>>; the access
\* token of the provider's session n is n, and 0 is a token of no session.
Authorizations ==
    {<<>>} \cup {<<s, n>> : s \in {"Bearer ", "Basic "}, n \in 0..MaxSignIns}

TenantHeaders == {<<>>, <<"r1">>}

\* verify_supabase_jwt: the HTTPException it raises, or <<>> when it returns
\* the user. supabase.auth.get_user raises for a token the provider does not
\* know, and the handler turns every exception into a 401.
verify_supabase_jwt(authorization, srv) ==
    IF authorization = <<>> \/ authorization[1] # "Bearer "
    THEN <<Response(401, [detail |-> "Missing bearer token"])>>
    ELSE LET token == authorization[2]
         IN  IF token \in 1..Len(srv) /\ srv[token].live THEN <<>>
             ELSE <<Response(401, [detail |-> "Invalid token: {e}"])>>

Paths == {"/healthz", "/protected-test"}

\* A variant of the route table that puts every route behind the JWT check.
RouteDependenciesAllProtected(path) == {"verify_supabase_jwt"}

\* The dependencies each route is declared with.
RouteDependencies(path) ==
    IF path = "/protected-test" THEN {"verify_supabase_jwt"} ELSE {}

healthz == Response(200, [status |-> "ok"])

protected_test == Response(200, [message |-> "You have access to protected data!"])

\* GET path: the dependencies run first, then the handler.
Serve(path, authorization, srv) ==
    LET refused == IF "verify_supabase_jwt" \in RouteDependencies(path)
                   THEN verify_supabase_jwt(authorization, srv) ELSE <<>>
    IN  IF refused # <<>> THEN refused[1]
        ELSE IF path = "/healthz" THEN healthz ELSE protected_test

NoHttpRequest ==
    [path |-> "none", authorization |-> <<>>, x_tenant_id |-> <<>>,
     response |-> Response(0, [status |-> "none"])]

HttpIdle == httpLast = NoHttpRequest

HttpInit == HttpIdle /\ ClientInit

HttpGet(path, authorization, x_tenant_id) ==
    /\ httpLast' = [path |-> path, authorization |-> authorization,
                    x_tenant_id |-> x_tenant_id,
                    response |-> Serve(path, authorization, srvSessions)]
    /\ UNCHANGED otherThanHttp

GetStep ==
    \E p \in Paths, a \in Authorizations, t \in TenantHeaders : HttpGet(p, a, t)

HttpNext == GetStep \/ ClientSignInStep \/ ClientRouterSignOutStep

(***************************************************************************)
(* Phone and OTPCode value objects                                         *)
(***************************************************************************)
Digits == {"0", "1", "2", "3", "4", "5", "6", "7", "8", "9"}

\* Phone._is_valid_phone: re.match(r'^\+[1-9]\d{1,14}$', phone)
is_valid_phone(phone) ==
    /\ Len(phone) >= 3
    /\ phone[1] = "+"
    /\ phone[2] \in Digits \ {"0"}
    /\ Len(phone) - 2 \in 1..14
    /\ \A k \in 3..Len(phone) : phone[k] \in Digits

\* Phone.__init__: ValueError unless the format is valid, else the stripped
\* value is stored.
Phone(value) ==
    IF is_valid_phone(value) THEN [ok |-> TRUE, value |-> strip(value)]
    ELSE [ok |-> FALSE, value |-> <<>>]

\* OTPCode._is_valid_otp: re.match(r'^\d{6}$', otp.strip())
is_valid_otp(otp) ==
    LET s == strip(otp) IN Len(s) = 6 /\ \A k \in 1..6 : s[k] \in Digits

OTPCode(value) ==
    IF is_valid_otp(value) THEN [ok |-> TRUE, value |-> strip(value)]
    ELSE [ok |-> FALSE, value |-> <<>>]

PhoneOfDigits(n) == [k \in 1..(n + 1) |-> IF k = 1 THEN "+" ELSE "1"]

\* request.phone: well-formed numbers of the least and the greatest length,
\* and numbers that are too short, too long, start with 0 or lack the "+".
PhoneInputs ==
    { PhoneOfDigits(2), PhoneOfDigits(15), PhoneOfDigits(1), PhoneOfDigits(16),
      <<"+", "0", "1", "2">>, <<"1", "2", "3">> }

\* request.token
OTPInputs ==
    { <<"1", "2", "3", "4", "5", "6">>, <<" ", "1", "2", "3", "4", "5", "6">>,
      <<"1", "2", "3", "4", "5">>, <<"1", "2", "3", "4", "5", "6", "7">>,
      <<"1", "2", "a", "4", "5", "6">> }

(***************************************************************************)
(* log_auth_event                                                          *)
(***************************************************************************)
\* A logger that accepts every keyword.
log_auth_event_any_keyword(keywords) == TRUE

\* def log_auth_event(logger, event_type, user_id=None, email=None,
\*                    details=None, level="info"): a call with any other
\* keyword raises TypeError. The value is TRUE when the call returns.
log_auth_event(keywords) == keywords \subseteq {"user_id", "email", "details", "level"}

UnexpectedKeyword ==
    <<"log_auth_event() got an unexpected keyword argument 'phone'">>

\* A log_auth_event call inside the use case's try block: when it returns the
\* execution continues with `next`; the TypeError it raises is caught by
\* `except Exception`, whose outcome is `handled`.
Logged(keywords, next, handled) == IF log_auth_event(keywords) THEN next ELSE handled

\* A handler that makes the last repository call a second time before it
\* gives up.
PhoneHandlerRetrying(message, calls) ==
    [out |-> Outcome("TypeError", UnexpectedKeyword,
                     IF calls = <<>> THEN calls ELSE calls \o <<calls[Len(calls)]>>),
     dto |-> <<>>]

\* The `except Exception` handler of the phone use cases: it logs with the
\* phone keyword and raises AuthenticationError(message).
PhoneHandler(message, calls) ==
    [out |-> IF log_auth_event({"phone", "details", "level"})
             THEN Outcome("AuthenticationError", message, calls)
             ELSE Outcome("TypeError", UnexpectedKeyword, calls),
     dto |-> <<>>]

Raised(kind, detail, calls) == [out |-> Outcome(kind, detail, calls), dto |-> <<>>]

(***************************************************************************)
(* PhoneAuthUseCase.execute and ResendOTPUseCase.execute                   *)
(***************************************************************************)
PhoneAuthResponseDTO(message, phone) ==
    [message |-> message, phone |-> phone, otp_sent |-> TRUE]

\* What initiate_phone_auth does: it returns true or false, or raises.
InitiateBehaviours == {"true", "false", "raise"}

PhoneAuthExecute(phone_raw, behaviour) ==
    LET calls == <<"initiate_phone_auth">>
        failed == <<"Failed to send OTP">>
    IN  IF ~Phone(phone_raw).ok
        THEN Logged({"phone", "details", "level"},
                    Raised("InvalidPhoneFormatError", <<"Invalid phone format: {value}">>,
                           <<>>),
                    PhoneHandler(failed, <<>>))
        ELSE IF behaviour = "raise" THEN PhoneHandler(failed, calls)
        ELSE IF behaviour = "false"
        THEN Logged({"phone", "details", "level"},
                    PhoneHandler(failed, calls),
                    PhoneHandler(failed, calls))
        ELSE Logged({"phone", "details"},
                    [out |-> Outcome("returned", <<>>, calls),
                     dto |-> <<PhoneAuthResponseDTO("OTP sent successfully", phone_raw)>>],
                    PhoneHandler(failed, calls))

ResendOTPExecute(phone_raw, behaviour) ==
    LET calls == <<"initiate_phone_auth">>
        failed == <<"Failed to resend OTP">>
    IN  IF ~Phone(phone_raw).ok
        THEN Raised("InvalidPhoneFormatError", <<"Invalid phone format: {value}">>, <<>>)
        ELSE IF behaviour = "raise" THEN PhoneHandler(failed, calls)
        ELSE IF behaviour = "false"
        THEN Logged({"phone", "details", "level"},
                    PhoneHandler(failed, calls),
                    PhoneHandler(failed, calls))
        ELSE Logged({"phone", "details"},
                    [out |-> Outcome("returned", <<>>, calls),
                     dto |-> <<PhoneAuthResponseDTO("OTP resent successfully", phone_raw)>>],
                    PhoneHandler(failed, calls))

(***************************************************************************)
(* OTPVerificationUseCase.execute                                          *)
(***************************************************************************)
PhoneVerifyRequestDTO(phone, token, name) ==
    [phone |-> phone, token |-> token, name |-> name]

\* What verify_phone_otp does: it raises, or returns a result. user_name is
\* the name of the User in a successful result (<<>> when it has none) and
\* update is what update_user_metadata does when called.
VerifyResults ==
    { AuthenticationResult(TRUE, TRUE, <<AuthSession(<<"refresh-3">>)>>, <<>>),
      AuthenticationResult(TRUE, FALSE, <<AuthSession(<<>>)>>, <<>>),
      AuthenticationResult(TRUE, TRUE, <<>>, <<>>),
      AuthenticationResult(FALSE, FALSE, <<>>, <<>>),
      AuthenticationResult(FALSE, FALSE, <<>>, <<(<<"Token has ">> \o expired)>>),
      AuthenticationResult(FALSE, FALSE, <<>>,
                           <<(<<"O", "T", "P", " ", "E", "X", "P", "I", "R", "E", "D">>)>>),
      AuthenticationResult(FALSE, FALSE, <<>>, <<(<<"Invalid OTP">>)>>) }

VerifyBehaviours ==
    {[raises |-> "none", result |-> r, user_name |-> n, update |-> u] :
        r \in VerifyResults, n \in {<<>>, <<"Ann">>}, u \in {"ok", "raise"}}
        \cup {[raises |-> e, result |-> AuthenticationResult(FALSE, FALSE, <<>>, <<>>),
               user_name |-> <<>>, update |-> "ok"] :
                e \in {"Exception", "InvalidOTPError"}}

VerifyUser == RepositoryUser("user@example.com", "customer", <<>>)

\* The error raised for an unsuccessful verify_phone_otp result; the text
\* used for an absent message itself contains "expired".
VerifyFailure(error_message, calls) ==
    LET error_msg == MessageOr(error_message, <<"Invalid or ">> \o expired \o <<" OTP">>)
    IN  IF Contains(lower(error_msg), expired)
        THEN Raised("OTPExpiredError", error_msg, calls)
        ELSE Raised("InvalidOTPError", error_msg, calls)

\* Lines 216-231: the optional name update, then the response.
VerifyResponse(request, behaviour, calls) ==
    LET failed == <<"OTP verification failed">>
        updates == request.name # <<>> /\ behaviour.user_name = <<>>
        made == IF updates THEN Append(calls, "update_user_metadata") ELSE calls
        name == IF updates THEN request.name ELSE behaviour.user_name
    IN  IF updates /\ behaviour.update = "raise" THEN PhoneHandler(failed, made)
        ELSE IF behaviour.result.session = <<>> THEN PhoneHandler(failed, made)
        ELSE [out |-> Outcome("returned", <<>>, made),
              dto |-> <<[response |-> SessionResponse(behaviour.result.session[1],
                                                      VerifyUser),
                         name |-> name]>>]

OTPVerificationExecute(request, behaviour) ==
    LET calls == <<"verify_phone_otp">>
        failed == <<"OTP verification failed">>
        result == behaviour.result
    IN  IF ~Phone(request.phone).ok
        THEN Logged({"phone", "details", "level"},
                    Raised("InvalidPhoneFormatError", <<"Invalid phone format: {value}">>,
                           <<>>),
                    PhoneHandler(failed, <<>>))
        ELSE IF ~OTPCode(request.token).ok
        THEN Logged({"phone", "details", "level"},
                    Raised("InvalidOTPError", <<"Invalid OTP format: {value}">>, <<>>),
                    PhoneHandler(failed, <<>>))
        ELSE IF behaviour.raises = "InvalidOTPError"
        THEN Raised("InvalidOTPError", <<"raised by the repository">>, calls)
        ELSE IF behaviour.raises # "none" THEN PhoneHandler(failed, calls)
        ELSE IF ~result.success
        THEN Logged({"phone", "details", "level"},
                    VerifyFailure(result.error_message, calls),
                    PhoneHandler(failed, calls))
        ELSE IF ~result.has_user
        THEN \* AttributeError on None in user_entity_to_dto
             PhoneHandler(failed, calls)
        ELSE Logged({"user_id", "phone", "details"},
                    VerifyResponse(request, behaviour, calls),
                    PhoneHandler(failed, calls))

(***************************************************************************)
(* PhoneSignUpUseCase.execute                                              *)
(***************************************************************************)
\* PhoneAuthUseCase.execute, then OTPVerificationUseCase.execute; whatever
\* either raises is logged and re-raised.
PhoneSignUpExecute(phone_raw, verify_request, initiate, verify) ==
    LET first == PhoneAuthExecute(phone_raw, initiate)
        second == OTPVerificationExecute(verify_request, verify)
    IN  IF first.out.kind # "returned" THEN first
        ELSE [out |-> Outcome(second.out.kind, second.out.detail,
                              first.out.calls \o second.out.calls),
              dto |-> second.dto]

(***************************************************************************)
(* State machine: the phone use cases                                      *)
(***************************************************************************)
PhoneInit == UcIdle

PhoneAuth(request, behaviour) ==
    /\ ucLast' = UcOp("PhoneAuth", request, behaviour,
                      PhoneAuthExecute(request.phone, behaviour))
    /\ UNCHANGED otherThanUc

ResendOTP(request, behaviour) ==
    /\ ucLast' = UcOp("ResendOTP", request, behaviour,
                      ResendOTPExecute(request.phone, behaviour))
    /\ UNCHANGED otherThanUc

OTPVerification(request, behaviour) ==
    /\ ucLast' = UcOp("OTPVerification", request, behaviour,
                      OTPVerificationExecute(request, behaviour))
    /\ UNCHANGED otherThanUc

PhoneSignUpRun(request, behaviour) ==
    /\ ucLast' = UcOp("PhoneSignUp", request, behaviour,
                      PhoneSignUpExecute(request.phone, request.verify_request,
                                         behaviour.initiate, behaviour.verify))
    /\ UNCHANGED otherThanUc

Names == {<<>>, <<"Bo">>}

VerifyRequests ==
    {PhoneVerifyRequestDTO(p, t, n) :
        p \in {PhoneOfDigits(2), PhoneOfDigits(1)}, t \in OTPInputs, n \in Names}

\* Both requests of a sign-up carry the same phone.
SignUpRequests ==
    {[phone |-> p, verify_request |-> PhoneVerifyRequestDTO(p, t, <<"Bo">>)] :
        p \in {PhoneOfDigits(2), PhoneOfDigits(1)},
        t \in {<<"1", "2", "3", "4", "5", "6">>, <<"1", "2", "3", "4", "5">>}}

SignUpBehaviours ==
    {[initiate |-> i, verify |-> v] :
        i \in InitiateBehaviours,
        v \in {b \in VerifyBehaviours : b.user_name = <<>> /\ b.update = "ok"}}

PhoneRequests == {[phone |-> p] : p \in PhoneInputs}

PhoneAuthStep ==
    \E r \in PhoneRequests, b \in InitiateBehaviours : PhoneAuth(r, b)

ResendOTPStep ==
    \E r \in PhoneRequests, b \in InitiateBehaviours : ResendOTP(r, b)

OTPVerificationStep ==
    \E r \in VerifyRequests, b \in VerifyBehaviours : OTPVerification(r, b)

PhoneSignUpStep ==
    \E r \in SignUpRequests, b \in SignUpBehaviours : PhoneSignUpRun(r, b)

PhoneNext == PhoneAuthStep \/ ResendOTPStep \/ OTPVerificationStep \/ PhoneSignUpStep

(***************************************************************************)
(* State machine: single executions of every use case                      *)
(* Each step runs one use case on a request, a repository state and a      *)
(* repository behaviour, and records the repository method that reported   *)
(* a failure ("" when none did) with the outcome.                          *)
(***************************************************************************)
\* res is what the use case's operator yields: [out, dto, ...], [out, ...]
\* without a DTO, or the outcome itself.
Run(use_case, failed, res) ==
    /\ ucLast' = [use_case |-> use_case, request |-> <<>>,
                  behaviour |-> [failed |-> failed], out |-> res.out,
                  dto |-> <<>>]
    /\ UNCHANGED otherThanUc

RunStored(use_case, failed, res) ==
    /\ ucLast' = [use_case |-> use_case, request |-> <<>>,
                  behaviour |-> [failed |-> failed], out |-> res.out, dto |-> <<>>]
    /\ UNCHANGED otherThanUc

RunOutcome(use_case, failed, out) ==
    /\ ucLast' = [use_case |-> use_case, request |-> <<>>,
                  behaviour |-> [failed |-> failed], out |-> out, dto |-> <<>>]
    /\ UNCHANGED otherThanUc

\* The repository method that raised or reported an unsuccessful result.
FailedCall(method, behaviour) ==
    IF behaviour.raises # "none" \/ ~behaviour.result.success THEN method ELSE ""

FailedFlag(method, behaviour) == IF behaviour \in {"false", "raise"} THEN method ELSE ""

FaultOf(method, fault) == IF fault THEN method ELSE ""

\* Session stores and instants: no session, and one session seen while it is
\* valid and after it has expired.
AnonStores ==
    {<<>>, create_anonymous_session(<<>>, "X", NoneId, DefaultExpiresHours, 0)}

AnonInstants == {0, DefaultExpiresHours + 1}

UseCasesInit == UcIdle

RunEmailSignIn ==
    \E e \in EmailInputs, p \in Passwords, b \in RepositoryBehaviours :
        Run("EmailSignIn", FailedCall("sign_in_with_email", b),
            EmailSignInExecute(e, p, b))

RunEmailSignUp ==
    \E e \in EmailInputs, p \in Passwords, profile \in SignUpProfiles,
       l \in LookupBehaviours, b \in RepositoryBehaviours :
        Run("EmailSignUp",
                IF l = "raise" THEN "get_user_by_email"
                ELSE IF l = "user" THEN ""
                ELSE FailedCall("sign_up_with_email", b),
            EmailSignUpExecute(e, p, profile.role, profile.restaurant_id, l, b))

RunPhoneAuth ==
    \E p \in PhoneInputs, b \in InitiateBehaviours :
        Run("PhoneAuth", FailedFlag("initiate_phone_auth", b),
            PhoneAuthExecute(p, b))

RunResendOTP ==
    \E p \in PhoneInputs, b \in InitiateBehaviours :
        Run("ResendOTP", FailedFlag("initiate_phone_auth", b),
            ResendOTPExecute(p, b))

RunOTPVerification ==
    \E r \in VerifyRequests, b \in VerifyBehaviours :
        Run("OTPVerification", FailedCall("verify_phone_otp", b),
            OTPVerificationExecute(r, b))

RunPhoneSignUp ==
    \E r \in SignUpRequests, b \in SignUpBehaviours :
        Run("PhoneSignUp",
            IF b.initiate # "true" THEN "initiate_phone_auth"
            ELSE FailedCall("verify_phone_otp", b.verify),
            PhoneSignUpExecute(r.phone, r.verify_request, b.initiate, b.verify))

RunTokenRefresh ==
    \E t \in RawTokens, b \in RefreshBehaviours :
        Run("TokenRefresh", FailedCall("refresh_session", b),
            TokenRefreshExecute(t, b))

RunUserProfile ==
    \E c \in UserContexts, l \in ProfileLookups :
        Run("UserProfile", IF l.kind = "user" THEN "" ELSE "get_user_by_id",
            UserProfileExecute(c, l))

RunSignOut ==
    \E k \in ContextKinds, b \in SignOutBehaviours :
        RunOutcome("SignOut", FailedFlag("sign_out", b), SignOutExecute(k, b))

RunValidateToken ==
    \E tv \in RawTokens, bl \in {{}, TokenValues}, prov \in {{}, TokenValues},
       hc \in BOOLEAN,
       f \in {"none", "is_token_blacklisted", "validate_token", "extract_user_context"} :
        RunOutcome("ValidateToken", IF f = "none" THEN "" ELSE f,
                   ValidateTokenExecute(tv, bl, prov, hc, f))

RunBlacklistToken ==
    \E tv \in RawTokens, bl \in {{}, TokenValues}, acc \in BOOLEAN,
       f \in {"none", "blacklist_token"} :
        RunStored("BlacklistToken",
            IF f # "none" \/ ~acc THEN "blacklist_token" ELSE "",
            BlacklistTokenExecute(tv, bl, acc, f))

RunCreateAnonymousSession ==
    \E rid \in RestaurantInputs, tid \in TableInputs, f \in BOOLEAN :
        Run("CreateAnonymousSession", FaultOf("create_anonymous_session", f),
            CreateAnonymousSessionExecute(<<>>, rid, tid, 0, f))

RunValidateAnonymousSession ==
    \E s \in AnonStores, tv \in RawTokens, t \in AnonInstants, f \in BOOLEAN :
        RunOutcome("ValidateAnonymousSession",
                   FaultOf("validate_anonymous_session", f),
                   ValidateAnonymousSessionExecute(s, tv, t, f))

RunGetAnonymousSession ==
    \E s \in AnonStores, sid \in SessionIds, t \in AnonInstants, f \in BOOLEAN :
        Run("GetAnonymousSession", FaultOf("get_anonymous_session", f),
            GetAnonymousSessionExecute(s, sid, t, f))

RunInvalidateAnonymousSession ==
    \E s \in AnonStores, sid \in SessionIds, f \in BOOLEAN :
        RunStored("InvalidateAnonymousSession", FaultOf("invalidate_anonymous_session", f),
            InvalidateAnonymousSessionExecute(s, sid, f))

RunCleanupExpiredSessions ==
    \E s \in AnonStores, t \in AnonInstants, f \in BOOLEAN :
        RunStored("CleanupExpiredSessions", FaultOf("cleanup_expired_sessions", f),
            CleanupExpiredSessionsExecute(s, t, f))

RunExtendAnonymousSession ==
    \E s \in AnonStores, sid \in SessionIds, h \in ExtendHours, t \in AnonInstants,
       f \in BOOLEAN :
        RunStored("ExtendAnonymousSession", FaultOf("get_anonymous_session", f),
            ExtendAnonymousSessionExecute(s, sid, h, t, f))

UseCasesNext ==
    \/ RunEmailSignIn
    \/ RunEmailSignUp
    \/ RunPhoneAuth
    \/ RunResendOTP
    \/ RunOTPVerification
    \/ RunPhoneSignUp
    \/ RunTokenRefresh
    \/ RunUserProfile
    \/ RunSignOut
    \/ RunValidateToken
    \/ RunBlacklistToken
    \/ RunCreateAnonymousSession
    \/ RunValidateAnonymousSession
    \/ RunGetAnonymousSession
    \/ RunInvalidateAnonymousSession
    \/ RunCleanupExpiredSessions
    \/ RunExtendAnonymousSession

(***************************************************************************)
(* SupabaseAuthRepository over the provider                                *)
(***************************************************************************)
\* The texts of the exceptions the provider's client raises.
ProviderTexts ==
    { <<"connection refused">>,
      <<"relation auth.users: password hash mismatch">>,
      <<"JWT ">> \o expired,
      <<"J", "W", "T", " ", "E", "X", "P", "I", "R", "E", "D">> }

\* A provider call raises an exception with a text, or answers with or
\* without a user and a session.
ProviderOutcomes ==
    {[kind |-> "raise", text |-> t, user |-> FALSE, session |-> FALSE] :
        t \in ProviderTexts}
        \cup {[kind |-> "response", text |-> <<>>, user |-> u, session |-> s] :
                u \in BOOLEAN, s \in BOOLEAN}

sign_in_with_email(outcome) ==
    IF outcome.kind = "raise"
    THEN AuthenticationResult(FALSE, FALSE, <<>>,
                              <<(<<"Authentication failed: ">> \o outcome.text)>>)
    ELSE IF ~outcome.user \/ ~outcome.session
    THEN AuthenticationResult(FALSE, FALSE, <<>>, <<(<<"Invalid email or password">>)>>)
    ELSE AuthenticationResult(TRUE, TRUE, <<AuthSession(<<"refresh-1">>)>>, <<>>)

verify_phone_otp(outcome) ==
    IF outcome.kind = "raise"
    THEN AuthenticationResult(FALSE, FALSE, <<>>,
                              <<(<<"OTP verification failed: ">> \o outcome.text)>>)
    ELSE IF ~outcome.user \/ ~outcome.session
    THEN AuthenticationResult(FALSE, FALSE, <<>>,
                              <<(<<"Invalid or ">> \o expired \o <<" OTP">>)>>)
    ELSE AuthenticationResult(TRUE, TRUE, <<AuthSession(<<"refresh-3">>)>>, <<>>)

\* The result is a success whenever the provider sends a session, with or
\* without a user.
refresh_session(outcome) ==
    IF outcome.kind = "raise"
    THEN AuthenticationResult(FALSE, FALSE, <<>>,
                              <<(<<"Token refresh failed: ">> \o outcome.text)>>)
    ELSE IF ~outcome.session
    THEN AuthenticationResult(FALSE, FALSE, <<>>, <<(<<"Invalid refresh token">>)>>)
    ELSE AuthenticationResult(TRUE, outcome.user, <<AuthSession(<<"refresh-2">>)>>,
                              <<>>)

(***************************************************************************)
(* State machine: use cases over SupabaseAuthRepository                    *)
(***************************************************************************)
SignInRequests == {[email |-> e, password |-> p] : e \in EmailInputs, p \in Passwords}

ProviderInit == UcIdle

ProviderRun(use_case, request, outcome, res) ==
    /\ ucLast' = [use_case |-> use_case, request |-> request, behaviour |-> outcome,
                  out |-> res.out, dto |-> <<>>]
    /\ UNCHANGED otherThanUc

ProviderSignInStep ==
    \E r \in SignInRequests, p \in ProviderOutcomes :
        ProviderRun("EmailSignIn", r, p,
                    EmailSignInExecute(r.email, r.password,
                                       [raises |-> "none",
                                        result |-> sign_in_with_email(p)]))

ProviderVerifyStep ==
    \E r \in VerifyRequests, p \in ProviderOutcomes :
        ProviderRun("OTPVerification", r, p,
                    OTPVerificationExecute(r, [raises |-> "none",
                                               result |-> verify_phone_otp(p),
                                               user_name |-> <<>>, update |-> "ok"]))

ProviderRefreshStep ==
    \E t \in RawTokens, p \in ProviderOutcomes :
        ProviderRun("TokenRefresh", t, p,
                    TokenRefreshExecute(t, [raises |-> "none",
                                            result |-> refresh_session(p)]))

ProviderNext == ProviderSignInStep \/ ProviderVerifyStep \/ ProviderRefreshStep

(***************************************************************************)
(* Route guards: require_role, require_permission,                         *)
(* require_restaurant_access                                               *)
(***************************************************************************)
\* What a guard does with a request: it raises HTTPException(403), or it
\* returns the context and the guarded handler runs.
Forbidden == [status_code |-> 403, handler_reached |-> FALSE]
Passed == [status_code |-> 200, handler_reached |-> TRUE]

role_checker(user_context, allowed_roles) ==
    IF ~UserContext_has_any_role(user_context, allowed_roles) THEN Forbidden
    ELSE Passed

permission_checker(user_context, required_permission) ==
    IF ~UserContext_has_permission(user_context, required_permission) THEN Forbidden
    ELSE Passed

\* restaurant_access_checker never reads the request's restaurant id: it
\* returns the context.
restaurant_access_checker(user_context, target_restaurant_id) == Passed

(***************************************************************************)
(* State machine: guarded requests                                         *)
(***************************************************************************)
GuardContexts ==
    {UserContext(r, t, p) : r \in QueryRoles, t \in RestaurantIds \cup {NoneId},
                            p \in {EmptyPerms, [granted |-> PermNames, denied |-> {}]}}

GuardTargets == RestaurantIds \cup {NoneId}

NoGuardedRequest ==
    [guard |-> "none", argument |-> <<>>, user_context |-> <<>>, status_code |-> 0,
     handler_reached |-> FALSE]

GuardIdle == guardLast = NoGuardedRequest

GuardInit == GuardIdle

Guarded(guard, argument, user_context, verdict) ==
    /\ guardLast' = [guard |-> guard, argument |-> argument,
                     user_context |-> user_context,
                     status_code |-> verdict.status_code,
                     handler_reached |-> verdict.handler_reached]
    /\ UNCHANGED otherThanGuard

RequireRoleStep ==
    \E c \in GuardContexts, roles \in RoleLists(MaxRoleList) :
        Guarded("require_role", roles, c, role_checker(c, roles))

RequirePermissionStep ==
    \E c \in GuardContexts, p \in QueryPerms :
        Guarded("require_permission", p, c, permission_checker(c, p))

RequireRestaurantAccessStep ==
    \E c \in GuardContexts, t \in GuardTargets :
        Guarded("require_restaurant_access", t, c, restaurant_access_checker(c, t))

GuardNext == RequireRoleStep \/ RequirePermissionStep \/ RequireRestaurantAccessStep

(***************************************************************************)
(* SupabaseAuthRepository._convert_supabase_session_to_entity              *)
(***************************************************************************)
\* datetime.replace(microsecond=0): the instant cut down to its whole second.
replace_microsecond_0(t) == t - (t % TicksPerSecond)

\* The AuthSession built at instant utcnow from a provider session issued
\* with expires_in seconds (0 stands for an absent expires_in).
convert_supabase_session_to_entity(expires_in, utcnow) ==
    [issued |-> TRUE, created_at |-> utcnow, expires_in |-> expires_in,
     expires_at |-> IF expires_in # 0 THEN <<replace_microsecond_0(utcnow)>>
                    ELSE <<>>]

(***************************************************************************)
(* State machine: a session is built, time passes, the session is checked  *)
(***************************************************************************)
ExpiresIns == 0..MaxExpiresIn

NoAuthSession == [issued |-> FALSE, created_at |-> 0, expires_in |-> 0, expires_at |-> <<>>]

NoSessionCheck == [made |-> FALSE, at |-> 0, is_expired |-> FALSE, is_valid |-> FALSE]

SessIdle == clock = 0 /\ authSession = NoAuthSession /\ sessionCheck = NoSessionCheck

SessInit == SessIdle

\* A successful sign-in, sign-up, OTP verification or refresh converts the
\* provider's session.
SessionIssued(expires_in) ==
    /\ authSession' = convert_supabase_session_to_entity(expires_in, clock)
    /\ sessionCheck' = NoSessionCheck
    /\ UNCHANGED <<clock, otherThanSess>>

ClockTick ==
    /\ clock < MaxClock
    /\ clock' = clock + 1
    /\ UNCHANGED <<authSession, sessionCheck, otherThanSess>>

SessionChecked ==
    /\ authSession.issued
    /\ sessionCheck' = [made |-> TRUE, at |-> clock,
                        is_expired |-> AuthSession_is_expired(authSession.expires_at,
                                                              clock),
                        is_valid |-> AuthSession_is_valid(authSession.expires_at,
                                                          clock)]
    /\ UNCHANGED <<clock, authSession, otherThanSess>>

SessionIssuedStep == \E e \in ExpiresIns : SessionIssued(e)

SessNext == SessionIssuedStep \/ ClockTick \/ SessionChecked

(***************************************************************************)
(* OTP verification and the name update on the cached provider client      *)
(***************************************************************************)
\* supabase.auth.verify_otp on the cached client, for an OTP the provider
\* accepts: the client keeps the verified user's session as its own.
client_verify_otp(held, user) == user

\* supabase.auth.update_user({"data": {"name": name}}) on the cached client:
\* it is given no user; it updates the user whose session the client holds.
client_update_user(held, names, name) == [names EXCEPT ![held] = name]

\* SupabaseAuthRepository.update_user_metadata(user_id, metadata): user_id is
\* only logged.
update_user_metadata(held, names, user_id, name) == client_update_user(held, names, name)

\* The verify-then-update block shared by SupabaseAuthRepository.verify_phone_otp
\* and the router's verify_phone_otp: both calls are made on the cached client
\* one after the other, with nothing awaited in between.
VerifyThenUpdate(held, names, updates, user, name) ==
    LET holder == client_verify_otp(held, user)
        wanted == name # <<>> /\ names[user] = <<>>
    IN  [held |-> holder,
         names |-> IF wanted THEN client_update_user(holder, names, name) ELSE names,
         updates |-> IF wanted
                     THEN updates \cup {[verified |-> user, applied_to |-> holder]}
                     ELSE updates,
         \* the User entity is converted from the verify response, which predates
         \* the update
         user_name |-> names[user]]

(***************************************************************************)
(* State machine: requests sharing the cached provider client              *)
(***************************************************************************)
OtpExecutions == {1, 2}
GivenNames == {<<>>, <<"Bo">>}

OtpIdleExecution == [pc |-> "idle", user |-> "none", name |-> <<>>, user_name |-> <<>>]

OtpIdle ==
    /\ otpHeld = "none"
    /\ otpNames = [u \in Users |-> <<>>]
    /\ otpProc = [p \in OtpExecutions |-> OtpIdleExecution]
    /\ otpUpdates = {}

OtpInit == OtpIdle

\* POST /auth/signin/email: sign_in_with_password on the cached client.
OtpRouterSignIn(user) ==
    /\ otpHeld' = user
    /\ UNCHANGED <<otpNames, otpProc, otpUpdates, otherThanOtp>>

\* POST /auth/verify/phone.
OtpRouterVerify(user, name) ==
    /\ LET v == VerifyThenUpdate(otpHeld, otpNames, otpUpdates, user, name) IN
        /\ otpHeld' = v.held
        /\ otpNames' = v.names
        /\ otpUpdates' = v.updates
    /\ UNCHANGED <<otpProc, otherThanOtp>>

\* OTPVerificationUseCase.execute up to the return of
\* `await self._auth_repository.verify_phone_otp(...)`.
OtpUseCaseVerify(p, user, name) ==
    /\ otpProc[p].pc # "verified"
    /\ LET v == VerifyThenUpdate(otpHeld, otpNames, otpUpdates, user, name) IN
        /\ otpHeld' = v.held
        /\ otpNames' = v.names
        /\ otpUpdates' = v.updates
        /\ otpProc' = [otpProc EXCEPT ![p].pc = "verified", ![p].user = user,
                                      ![p].name = name, ![p].user_name = v.user_name]
    /\ UNCHANGED otherThanOtp

\* The rest of the execution: the success is logged with the phone keyword,
\* then the name is updated when one was given and the user has none.
OtpUseCaseContinue(p) ==
    /\ otpProc[p].pc = "verified"
    /\ IF ~log_auth_event({"user_id", "phone", "details"})
       THEN /\ otpProc' = [otpProc EXCEPT ![p].pc = "TypeError"]
            /\ UNCHANGED <<otpHeld, otpNames, otpUpdates>>
       ELSE IF otpProc[p].name # <<>> /\ otpProc[p].user_name = <<>>
       THEN /\ otpNames' = update_user_metadata(otpHeld, otpNames, otpProc[p].user,
                                                otpProc[p].name)
            /\ otpUpdates' = otpUpdates \cup {[verified |-> otpProc[p].user,
                                               applied_to |-> otpHeld]}
            /\ otpProc' = [otpProc EXCEPT ![p].pc = "AuthResponseDTO"]
            /\ UNCHANGED otpHeld
       ELSE /\ otpProc' = [otpProc EXCEPT ![p].pc = "AuthResponseDTO"]
            /\ UNCHANGED <<otpHeld, otpNames, otpUpdates>>
    /\ UNCHANGED otherThanOtp

OtpRouterSignInStep == \E u \in Users : OtpRouterSignIn(u)

OtpRouterVerifyStep == \E u \in Users, n \in GivenNames : OtpRouterVerify(u, n)

OtpUseCaseVerifyStep ==
    \E p \in OtpExecutions, u \in Users, n \in GivenNames : OtpUseCaseVerify(p, u, n)

OtpUseCaseContinueStep == \E p \in OtpExecutions : OtpUseCaseContinue(p)

OtpNext ==
    \/ OtpRouterSignInStep
    \/ OtpRouterVerifyStep
    \/ OtpUseCaseVerifyStep
    \/ OtpUseCaseContinueStep

(***************************************************************************)
(* common/supabase_client.py: the cached client getters                    *)
(***************************************************************************)
SyncGetters == {"get_supabase", "get_supabase_anon"}
AsyncGetters == {"get_async_supabase", "get_async_supabase_anon"}
Getters == SyncGetters \cup AsyncGetters

\* functools.lru_cache(maxsize=1) on a function of no arguments: the function
\* body runs on the first call only and what it RETURNED is kept; `entry` is
\* <<>> before the first call.
lru_cache(entry, returned) == IF entry = <<>> THEN <<returned>> ELSE entry

\* What calling the decorated function returns: for `def`, the client that
\* create_client built; for `async def`, a coroutine object that has not run
\* yet and will build client `id` when awaited.
SyncReturn(id) == [kind |-> "client", id |-> id, awaited |-> FALSE]
AsyncReturn(id) == [kind |-> "coroutine", id |-> id, awaited |-> FALSE]

\* `await` on what the getter handed out: a client is used as it is; a
\* coroutine object runs once, and awaiting it again raises RuntimeError.
Awaited(value) ==
    IF value.kind = "client" THEN [outcome |-> "client", client |-> value.id]
    ELSE IF value.awaited
    THEN [outcome |-> "RuntimeError: cannot reuse already awaited coroutine",
          client |-> 0]
    ELSE [outcome |-> "client", client |-> value.id]

(***************************************************************************)
(* State machine: calls of the getters                                     *)
(***************************************************************************)
NoGetterCall == [getter |-> "none", n |-> 0, outcome |-> "none", client |-> 0]

CacheIdle ==
    /\ cacheEntry = [g \in Getters |-> <<>>]
    /\ getterCalls = [g \in Getters |-> 0]
    /\ clientsCreated = 0
    /\ cacheLast = NoGetterCall

CacheInit == CacheIdle

\* One call of a getter, awaited where the getter is asynchronous.
CallGetter(g) ==
    /\ getterCalls[g] < MaxGetterCalls
    /\ LET miss == cacheEntry[g] = <<>>
           id == clientsCreated + 1
           entry == lru_cache(cacheEntry[g],
                              IF g \in SyncGetters THEN SyncReturn(id)
                              ELSE AsyncReturn(id))
           got == Awaited(entry[1])
       IN  /\ cacheEntry' = [cacheEntry EXCEPT
                                ![g] = <<[entry[1] EXCEPT
                                            !.awaited = entry[1].kind = "coroutine"]>>]
           /\ clientsCreated' = IF miss THEN id ELSE clientsCreated
           /\ cacheLast' = [getter |-> g, n |-> getterCalls[g] + 1,
                            outcome |-> got.outcome, client |-> got.client]
    /\ getterCalls' = [getterCalls EXCEPT ![g] = @ + 1]
    /\ UNCHANGED otherThanCache

CallGetterStep == \E g \in Getters : CallGetter(g)

CacheNext == CallGetterStep

(***************************************************************************)
(* validate_restaurant_code                                                *)
(***************************************************************************)
\* str.upper()
UpperCase(c) ==
    CASE c = "a" -> "A" [] c = "b" -> "B" [] c = "c" -> "C" [] OTHER -> c

upper(s) == [k \in 1..Len(s) |-> UpperCase(s[k])]

\* The rows of the restaurants table.
Restaurants ==
    { [code |-> <<"A", "B", "C", "1", "2", "3">>, id |-> "r1", name |-> "Alpha"],
      [code |-> <<"A", "B", "C", "1", "2", "3", "4", "5">>, id |-> "r2",
       name |-> "Beta"] }

\* supabase.table("restaurants").select(...).eq("code", code).execute().data
select_restaurants(code) == {row \in Restaurants : row.code = code}

\* The logging helpers end with getattr(logger, level.lower(), logger.info),
\* which needs a logger in their first positional argument; given a str they
\* raise AttributeError. The value is TRUE when the call returns.
log_method(logger) == logger = "logging.Logger"

SessionTokenHours == 24

CodeResponse(status_code, body, rows, calls) ==
    [status_code |-> status_code, body |-> body, rows |-> rows, calls |-> calls]

NoBody == [valid |-> FALSE, restaurant_id |-> "", name |-> "", session_token |-> 0]

\* The handler from the insert on, for the matched restaurant: the row is
\* inserted, the success is logged, the branding and the token are returned.
CodeSession(restaurant, rows, insert, at) ==
    LET calls == <<"select restaurants", "insert anonymous_sessions">>
        session_token == Len(rows) + 1
        inserted == Append(rows, [restaurant_id |-> restaurant.id,
                                  session_token |-> session_token,
                                  expires_at |-> at + SessionTokenHours])
    IN  IF insert = "raise" THEN CodeResponse(500, NoBody, rows, calls)
        ELSE IF insert = "no data" THEN CodeResponse(500, NoBody, rows, calls)
        \* log_auth_event("restaurant_code_validated", {...})
        ELSE IF ~log_method("restaurant_code_validated")
        THEN CodeResponse(500, NoBody, inserted, calls)
        ELSE CodeResponse(200, [valid |-> TRUE, restaurant_id |-> restaurant.id,
                                name |-> restaurant.name,
                                session_token |-> session_token],
                          inserted, calls)

validate_restaurant_code(code_raw, rows, select, insert, at) ==
    LET code == strip(upper(code_raw))
        data == select_restaurants(code)
    IN  IF code = <<>> \/ Len(code) < 6 \/ Len(code) > 8
        THEN CodeResponse(400, NoBody, rows, <<>>)
        ELSE IF select = "raise"
        THEN CodeResponse(500, NoBody, rows, <<"select restaurants">>)
        ELSE IF data = {}
        \* log_security_event("invalid_restaurant_code", {"code": code}, "warning")
        THEN IF ~log_method("invalid_restaurant_code")
             THEN CodeResponse(500, NoBody, rows, <<"select restaurants">>)
             ELSE CodeResponse(404, NoBody, rows, <<"select restaurants">>)
        ELSE CodeSession(CHOOSE row \in data : TRUE, rows, insert, at)

(***************************************************************************)
(* State machine: restaurant code requests                                 *)
(***************************************************************************)
CodeInputs ==
    { <<"A", "B", "C", "1", "2", "3">>,
      <<"a", "b", "c", "1", "2", "3">>,
      <<" ", "a", "B", "c", "1", "2", "3", " ">>,
      <<"A", "B", "C", "1", "2", "3", "4", "5">>,
      <<"Z", "Z", "Z", "Z", "Z", "Z">>,
      <<"A", "B", "C", "1", "2">>,
      <<"A", "B", "C", "1", "2", "3", "4", "5", "6">>,
      <<" ", " ", " ", " ", " ", " ">>,
      <<>> }

SelectBehaviours == {"data", "raise"}
InsertBehaviours == {"data", "no data", "raise"}
CodeInstants == {0, 1}

NoCodeRequest ==
    [made |-> FALSE, code |-> <<>>, select |-> "data", insert |-> "data", at |-> 0,
     status_code |-> 0, body |-> NoBody, calls |-> <<>>, rows_before |-> <<>>]

CodeIdle == codeRows = <<>> /\ codeLast = NoCodeRequest

CodeInit == CodeIdle

ValidateRestaurantCode(code, select, insert, at) ==
    /\ Len(codeRows) < MaxCodeSessions
    /\ LET res == validate_restaurant_code(code, codeRows, select, insert, at) IN
        /\ codeRows' = res.rows
        /\ codeLast' = [made |-> TRUE, code |-> code, select |-> select,
                        insert |-> insert, at |-> at,
                        status_code |-> res.status_code, body |-> res.body,
                        calls |-> res.calls, rows_before |-> codeRows]
    /\ UNCHANGED otherThanCode

ValidateRestaurantCodeStep ==
    \E code \in CodeInputs, select \in SelectBehaviours, insert \in InsertBehaviours,
       at \in CodeInstants :
        ValidateRestaurantCode(code, select, insert, at)

CodeNext == ValidateRestaurantCodeStep

(***************************************************************************)
(* Value objects: construction errors and display forms                    *)
(***************************************************************************)
\* The message of the ValueError each constructor raises.
Email_error(value) == <<"Invalid email format: ">> \o value
Phone_error(value) == <<"Invalid phone format: ">> \o value
OTPCode_error(value) == <<"Invalid OTP format: ">> \o value
Token_error(value) == <<"Token value cannot be empty">>
SessionToken_error(value) == <<"Session token value cannot be empty">>

Stars(n) == [k \in 1..n |-> "*"]

\* f"{value[:4]}...{value[-4:]}" for a value longer than `over`, else "***"
Masked(value, over) ==
    IF Len(value) > over
    THEN SubSeq(value, 1, 4) \o <<".", ".", ".">>
            \o SubSeq(value, Len(value) - 3, Len(value))
    ELSE Stars(3)

\* __str__
Email_str(value) == value
Phone_str(value) == value
Token_str(value) == Masked(value, TokenMaskOver)
SessionToken_str(value) == Masked(value, SessionTokenMaskOver)
OTPCode_str(value) == Stars(6)

ValueObjects == {"Email", "Phone", "OTPCode", "Token", "SessionToken"}

Construct(class, value) ==
    CASE class = "Email" -> Email(value)
      [] class = "Phone" -> Phone(value)
      [] class = "OTPCode" -> OTPCode(value)
      [] class = "Token" -> Token(value)
      [] class = "SessionToken" -> SessionToken(value)

ErrorOf(class, value) ==
    CASE class = "Email" -> Email_error(value)
      [] class = "Phone" -> Phone_error(value)
      [] class = "OTPCode" -> OTPCode_error(value)
      [] class = "Token" -> Token_error(value)
      [] class = "SessionToken" -> SessionToken_error(value)

StrOf(class, value) ==
    CASE class = "Email" -> Email_str(value)
      [] class = "Phone" -> Phone_str(value)
      [] class = "OTPCode" -> OTPCode_str(value)
      [] class = "Token" -> Token_str(value)
      [] class = "SessionToken" -> SessionToken_str(value)

(***************************************************************************)
(* State machine: a value object is constructed, then displayed            *)
(***************************************************************************)
\* Secrets of every length up to MaxSecretLen, secrets that look like a
\* masked form, and blank ones.
SecretInputs ==
    {[k \in 1..n |-> "t"] : n \in 0..MaxSecretLen}
        \cup RawTokens
        \cup { Stars(3),
               <<"a", "b", "c", "d", ".", ".", ".", "e", "f", "g", "h">>,
               <<" ", "a", "b", "c", "d", ".", ".", ".", "e", "f", "g", "h", " ">>,
               <<"a", "b", "c", "d", "e", "f", "g", "h", "i", "j", "k">> }

VoInputs(class) ==
    CASE class = "Email" -> EmailInputs
      [] class = "Phone" -> PhoneInputs
      [] class = "OTPCode" -> OTPInputs
      [] class = "Token" -> SecretInputs
      [] class = "SessionToken" -> SecretInputs

NoValueObject ==
    [class |-> "none", input |-> <<>>, ok |-> FALSE, value |-> <<>>, error |-> <<>>,
     displayed |-> FALSE, str |-> <<>>]

VoIdle == voLast = NoValueObject

VoInit == VoIdle

ConstructValueObject(class, input) ==
    /\ LET made == Construct(class, input) IN
        voLast' = [class |-> class, input |-> input, ok |-> made.ok,
                   value |-> made.value,
                   error |-> IF made.ok THEN <<>> ELSE ErrorOf(class, input),
                   displayed |-> FALSE, str |-> <<>>]
    /\ UNCHANGED otherThanVo

DisplayValueObject ==
    /\ voLast.ok
    /\ ~voLast.displayed
    /\ voLast' = [voLast EXCEPT !.displayed = TRUE,
                                !.str = StrOf(voLast.class, voLast.value)]
    /\ UNCHANGED otherThanVo

ConstructStep ==
    \E class \in ValueObjects : \E input \in VoInputs(class) :
        ConstructValueObject(class, input)

VoNext == ConstructStep \/ DisplayValueObject

(***************************************************************************)
(* Specifications                                                          *)
(***************************************************************************)
InitToken == TokenInit /\ AuthzIdle /\ PredIdle /\ ClientIdle /\ AnonIdle /\ EmailIdle
        /\ UcIdle /\ HttpIdle
        /\ GuardIdle
        /\ SessIdle
        /\ OtpIdle
        /\ CacheIdle
        /\ CodeIdle
        /\ VoIdle

SpecToken == InitToken /\ [][TokenNext]_vars

InitAuthz == AuthzInit /\ TokenIdle /\ PredIdle /\ ClientIdle /\ AnonIdle /\ EmailIdle
        /\ UcIdle /\ HttpIdle
        /\ GuardIdle
        /\ SessIdle
        /\ OtpIdle
        /\ CacheIdle
        /\ CodeIdle
        /\ VoIdle

SpecAuthz == InitAuthz /\ [][AuthzNext]_vars

InitPred == PredInit /\ TokenIdle /\ AuthzIdle /\ ClientIdle /\ AnonIdle /\ EmailIdle
        /\ UcIdle /\ HttpIdle
        /\ GuardIdle
        /\ SessIdle
        /\ OtpIdle
        /\ CacheIdle
        /\ CodeIdle
        /\ VoIdle

SpecPred == InitPred /\ [][PredNext]_vars

InitClient == ClientInit /\ TokenIdle /\ AuthzIdle /\ PredIdle /\ AnonIdle /\ EmailIdle
        /\ UcIdle /\ HttpIdle
        /\ GuardIdle
        /\ SessIdle
        /\ OtpIdle
        /\ CacheIdle
        /\ CodeIdle
        /\ VoIdle

SpecClient == InitClient /\ [][ClientNext]_vars

InitAnon == AnonInit /\ TokenIdle /\ AuthzIdle /\ PredIdle /\ ClientIdle /\ EmailIdle
        /\ UcIdle /\ HttpIdle
        /\ GuardIdle
        /\ SessIdle
        /\ OtpIdle
        /\ CacheIdle
        /\ CodeIdle
        /\ VoIdle

SpecAnon == InitAnon /\ [][AnonNext]_vars

InitExpiry == AnonInit /\ TokenIdle /\ AuthzIdle /\ PredIdle /\ ClientIdle /\ EmailIdle
        /\ UcIdle /\ HttpIdle
        /\ GuardIdle
        /\ SessIdle
        /\ OtpIdle
        /\ CacheIdle
        /\ CodeIdle
        /\ VoIdle

SpecExpiry == InitExpiry /\ [][ExpiryNext]_vars

InitEmail ==
    EmailInit /\ TokenIdle /\ AuthzIdle /\ PredIdle /\ ClientIdle /\ AnonIdle
        /\ UcIdle /\ HttpIdle
        /\ GuardIdle
        /\ SessIdle
        /\ OtpIdle
        /\ CacheIdle
        /\ CodeIdle
        /\ VoIdle

SpecEmail == InitEmail /\ [][EmailNext]_vars

InitRefresh ==
    RefreshInit /\ TokenIdle /\ AuthzIdle /\ PredIdle /\ ClientIdle /\ AnonIdle
        /\ EmailIdle /\ HttpIdle
        /\ GuardIdle
        /\ SessIdle
        /\ OtpIdle
        /\ CacheIdle
        /\ CodeIdle
        /\ VoIdle

SpecRefresh == InitRefresh /\ [][RefreshNext]_vars

InitHttp ==
    HttpInit /\ TokenIdle /\ AuthzIdle /\ PredIdle /\ AnonIdle /\ EmailIdle /\ UcIdle
        /\ GuardIdle
        /\ SessIdle
        /\ OtpIdle
        /\ CacheIdle
        /\ CodeIdle
        /\ VoIdle

SpecHttp == InitHttp /\ [][HttpNext]_vars

InitPhone ==
    PhoneInit /\ TokenIdle /\ AuthzIdle /\ PredIdle /\ ClientIdle /\ AnonIdle
        /\ EmailIdle /\ HttpIdle
        /\ GuardIdle
        /\ SessIdle
        /\ OtpIdle
        /\ CacheIdle
        /\ CodeIdle
        /\ VoIdle

SpecPhone == InitPhone /\ [][PhoneNext]_vars

InitUseCases ==
    UseCasesInit /\ TokenIdle /\ AuthzIdle /\ PredIdle /\ ClientIdle /\ AnonIdle
        /\ EmailIdle /\ HttpIdle
        /\ GuardIdle
        /\ SessIdle
        /\ OtpIdle
        /\ CacheIdle
        /\ CodeIdle
        /\ VoIdle

SpecUseCases == InitUseCases /\ [][UseCasesNext]_vars

InitProvider ==
    ProviderInit /\ TokenIdle /\ AuthzIdle /\ PredIdle /\ ClientIdle /\ AnonIdle
        /\ EmailIdle /\ HttpIdle
        /\ GuardIdle
        /\ SessIdle
        /\ OtpIdle
        /\ CacheIdle
        /\ CodeIdle
        /\ VoIdle

SpecProvider == InitProvider /\ [][ProviderNext]_vars

InitGuard ==
    GuardInit /\ TokenIdle /\ AuthzIdle /\ PredIdle /\ ClientIdle /\ AnonIdle
        /\ EmailIdle /\ UcIdle /\ HttpIdle
        /\ SessIdle
        /\ OtpIdle
        /\ CacheIdle
        /\ CodeIdle
        /\ VoIdle

SpecGuard == InitGuard /\ [][GuardNext]_vars

InitSess ==
    SessInit /\ TokenIdle /\ AuthzIdle /\ PredIdle /\ ClientIdle /\ AnonIdle
        /\ EmailIdle /\ UcIdle /\ HttpIdle /\ GuardIdle
        /\ OtpIdle
        /\ CacheIdle
        /\ CodeIdle
        /\ VoIdle

SpecSess == InitSess /\ [][SessNext]_vars

InitOtp ==
    OtpInit /\ TokenIdle /\ AuthzIdle /\ PredIdle /\ ClientIdle /\ AnonIdle
        /\ EmailIdle /\ UcIdle /\ HttpIdle /\ GuardIdle /\ SessIdle
        /\ CacheIdle
        /\ CodeIdle
        /\ VoIdle

SpecOtp == InitOtp /\ [][OtpNext]_vars

InitCache ==
    CacheInit /\ TokenIdle /\ AuthzIdle /\ PredIdle /\ ClientIdle /\ AnonIdle
        /\ EmailIdle /\ UcIdle /\ HttpIdle /\ GuardIdle /\ SessIdle /\ OtpIdle
        /\ CodeIdle
        /\ VoIdle

SpecCache == InitCache /\ [][CacheNext]_vars

InitCode ==
    CodeInit /\ TokenIdle /\ AuthzIdle /\ PredIdle /\ ClientIdle /\ AnonIdle
        /\ EmailIdle /\ UcIdle /\ HttpIdle /\ GuardIdle /\ SessIdle /\ OtpIdle
        /\ CacheIdle
        /\ VoIdle

SpecCode == InitCode /\ [][CodeNext]_vars

\* Sign-in and sign-out beside a token blacklist that may hold revoked tokens.
InitSignOut ==
    ClientInit /\ blacklist \in {{}, TokenValues} /\ provider = TokenValues
        /\ revoked = blacklist /\ tokLast = NoOp
        /\ AuthzIdle /\ PredIdle /\ AnonIdle /\ EmailIdle /\ UcIdle /\ HttpIdle
        /\ GuardIdle /\ SessIdle /\ OtpIdle /\ CacheIdle /\ CodeIdle
        /\ VoIdle

SpecSignOut == InitSignOut /\ [][ClientNext]_vars

InitVo ==
    VoInit /\ TokenIdle /\ AuthzIdle /\ PredIdle /\ ClientIdle /\ AnonIdle
        /\ EmailIdle /\ UcIdle /\ HttpIdle /\ GuardIdle /\ SessIdle /\ OtpIdle
        /\ CacheIdle /\ CodeIdle

SpecVo == InitVo /\ [][VoNext]_vars

(***************************************************************************)
(* Claims about token validation and revocation                            *)
(***************************************************************************)
CallsOf(out) == {out.calls[i] : i \in 1..Len(out.calls)}

\* C1: once BlacklistToken has returned true for a token, every later
\* ValidateToken of that token yields no UserContext and reaches neither
\* validate_token nor extract_user_context, even while the provider still
\* accepts the token.
C1_RevokedTokenRejected ==
    (tokLast.op = "ValidateToken" /\ Token(tokLast.token).value \in revoked) =>
        /\ tokLast.out.kind # "UserContext"
        /\ CallsOf(tokLast.out) \cap {"validate_token", "extract_user_context"} = {}

\* A revoked token that the provider still accepts was validated and rejected.
C1_Witness ==
    /\ tokLast.op = "ValidateToken"
    /\ Token(tokLast.token).value \in revoked
    /\ tokLast.accepted
    /\ tokLast.hasContext
    /\ tokLast.fault = "none"
    /\ tokLast.out.kind = "InvalidTokenError"

\* C2: ValidateToken raises InvalidToken for an empty or whitespace-only
\* token, returns None (no exception) for a blacklisted token, returns None
\* when the provider gives no claims, and returns a UserContext otherwise.
\* Stated for executions in which no repository call raises and the
\* repository extracts a context from every token it validated.
C2_ValidateOutcomes ==
    (tokLast.op = "ValidateToken" /\ tokLast.fault = "none" /\ tokLast.hasContext) =>
        LET t == Token(tokLast.token) IN
        tokLast.out.kind =
            IF ~t.ok THEN "InvalidTokenError"
            ELSE IF t.value \in blacklist THEN "None"
            ELSE IF ~tokLast.accepted THEN "None"
            ELSE "UserContext"

(***************************************************************************)
(* Claims about the authorization context                                  *)
(***************************************************************************)
\* C3: the answers of has_role, has_permission and can_access_restaurant on
\* the UserContext built by get_current_user do not depend on user_metadata:
\* two requests of the same user under the same app_metadata claims (also
\* claims without a role key, or an undecodable token) get the same answers,
\* whatever the user stored in user_metadata between them.
C3_AnswersIndependentOfUserMetadata ==
    [][(lastReq.made /\ lastReq'.made) =>
            Answers(lastReq'.ctx) = Answers(lastReq.ctx)]_vars

\* C4: for each of role, restaurant_id and permissions the UserContext takes
\* the app_metadata value when the token's claims hold the key, the
\* user_metadata value when only user_metadata holds it, and the default
\* otherwise ("customer" for role).
C4_AppMetadataPrecedence ==
    lastReq.made =>
        LET claims == custom_claims(appMeta, decodable)
            um == lastReq.user_metadata
            ctx == lastReq.ctx
        IN  /\ ctx.role = IF claims.role # <<>> THEN claims.role[1]
                          ELSE IF um.role # <<>> THEN um.role[1] ELSE "customer"
            /\ ctx.restaurant_id =
                    IF claims.restaurant_id # <<>> THEN claims.restaurant_id[1]
                    ELSE IF um.restaurant_id # <<>> THEN um.restaurant_id[1]
                    ELSE NoneId
            /\ ctx.permissions =
                    IF claims.permissions # <<>> THEN claims.permissions[1]
                    ELSE IF um.permissions # <<>> THEN um.permissions[1]
                    ELSE EmptyPerms

\* Both mappings hold a role, the roles differ, and the context has the
\* app_metadata one.
C4_Witness ==
    /\ lastReq.made
    /\ decodable
    /\ appMeta.role # <<>>
    /\ lastReq.user_metadata.role # <<>>
    /\ lastReq.user_metadata.role # appMeta.role
    /\ lastReq.ctx.role = appMeta.role[1]

\* C5: can_access_restaurant(target) on User and on UserContext is true
\* exactly when target is None or equals the entity's restaurant_id; the
\* role "owner" gives no override.
C5_TenantAccess ==
    authzCheck.made =>
        LET expected == \/ authzCheck.target = NoneId
                        \/ authzCheck.target = authzCheck.self.restaurant_id
        IN  /\ authzCheck.user.can_access_restaurant = expected
            /\ authzCheck.context.can_access_restaurant = expected

\* An owner of restaurant X asked for restaurant Y and was denied.
C5_Witness ==
    /\ authzCheck.made
    /\ authzCheck.self.role = "owner"
    /\ authzCheck.self.restaurant_id = "X"
    /\ authzCheck.target = "Y"
    /\ ~authzCheck.context.can_access_restaurant
    /\ ~authzCheck.user.can_access_restaurant

\* C6: for role "owner", has_role, has_any_role and has_permission are true
\* for every argument; for any other role has_role(r) is role = r,
\* has_any_role(list) is role in list and has_permission(p) is the mapping's
\* value for p, false when absent. User and UserContext agree.
C6_OwnerOverride ==
    authzCheck.made =>
        LET self == authzCheck.self
            expected ==
                IF self.role = "owner"
                THEN [has_role |-> TRUE, has_any_role |-> TRUE, has_permission |-> TRUE]
                ELSE [has_role |-> self.role = authzCheck.required_role,
                      has_any_role |->
                          self.role \in {authzCheck.roles[i] :
                                            i \in 1..Len(authzCheck.roles)},
                      has_permission |->
                          authzCheck.permission \in self.permissions.granted]
            Of(answers) == [has_role |-> answers.has_role,
                            has_any_role |-> answers.has_any_role,
                            has_permission |-> answers.has_permission]
        IN  /\ Of(authzCheck.context) = expected
            /\ Of(authzCheck.user) = expected

\* An owner whose mapping denies the permission, asked with an empty role
\* list and another role, got true three times.
C6_Witness ==
    /\ authzCheck.made
    /\ authzCheck.self.role = "owner"
    /\ authzCheck.roles = <<>>
    /\ authzCheck.required_role = "manager"
    /\ authzCheck.permission \in authzCheck.self.permissions.denied
    /\ authzCheck.context.has_role
    /\ authzCheck.context.has_any_role
    /\ authzCheck.context.has_permission
    /\ authzCheck.user.has_permission

(***************************************************************************)
(* Claims about sign-out                                                   *)
(***************************************************************************)
\* C7: SignOutUseCase.execute never raises and always returns the success
\* DTO with message "Signed out successfully", for every context
\* (authenticated, anonymous, none) and whether the repository's sign_out
\* returns true, returns false or raises.
C7_SignOutAlwaysSucceeds ==
    soLast.op = "SignOutUseCase" =>
        /\ soLast.out.kind = "SignOutResponseDTO"
        /\ soLast.out.detail = "Signed out successfully"

\* An authenticated user signed out while the repository's sign_out raised.
C7_Witness ==
    /\ soLast.op = "SignOutUseCase"
    /\ soLast.contextKind = "authenticated"
    /\ soLast.behaviour = "raise"
    /\ soLast.out.calls = <<"sign_out">>
    /\ soLast.out.kind = "SignOutResponseDTO"

\* C8: the cached client carries no per-user state: a sign-out issued by one
\* user ends only sessions of that user, never a session another user
\* established through the same client.
C8_SignOutEndsOnlyOwnSessions ==
    soLast.op # "none" =>
        \A sid \in soLast.ended : srvSessions[sid].user = soLast.by

C10_ExpiredFromExpiresAt ==
    expiryCheck.made =>
        /\ expiryCheck.is_expired =
              (expiryCheck.expires_at # <<>> /\ now >= expiryCheck.expires_at[1])
        /\ expiryCheck.is_valid = ~expiryCheck.is_expired

(***************************************************************************)
(* Claims about the anonymous session use cases                            *)
(***************************************************************************)
\* C11: ExtendAnonymousSession on a stored session whose expires_at has
\* passed raises SessionExpired, on an unknown session_id raises
\* SessionNotFound, and in both cases the session store is left as it was and
\* only get_anonymous_session was called. Stated for a repository whose
\* lookup does not raise.
C11_ExtendRefusalLeavesStore ==
    [][(anonLast'.op = "Extend" /\ anonLast'.out.detail # "Failed to extend session") =>
          LET sid == anonLast'.session_id IN
          /\ ~Found(anonStore, sid) =>
                /\ anonLast'.out.kind = "SessionNotFoundError"
                /\ anonStore' = anonStore
                /\ anonLast'.out.calls = <<"get_anonymous_session">>
          /\ (Found(anonStore, sid)
                /\ AnonymousSession_is_expired(anonStore[sid].expires_at, now)) =>
                /\ anonLast'.out.kind = "SessionExpiredError"
                /\ anonStore' = anonStore
                /\ anonLast'.out.calls = <<"get_anonymous_session">>]_vars

\* Extend was refused for a session that is still stored and has expired.
C11_Witness ==
    /\ anonLast.op = "Extend"
    /\ anonLast.out.kind = "SessionExpiredError"
    /\ Found(anonStore, anonLast.session_id)
    /\ now > anonStore[anonLast.session_id].expires_at[1]

\* C12: when ExtendAnonymousSession with extend_hours > 0 returns true for a
\* valid session, the stored session's expires_at is strictly later than it
\* was before the call.
C12_ExtendPushesExpiryForward ==
    [][(anonLast'.op = "Extend" /\ anonLast'.out.kind = "True"
            /\ anonLast'.hours > 0) =>
          LET sid == anonLast'.session_id IN
          /\ Found(anonStore', sid)
          /\ anonStore'[sid].expires_at[1] > anonStore[sid].expires_at[1]]_vars

\* C13: GetAnonymousSession returns None, raising nothing, when no session
\* with the id is stored and when the stored session is expired, and returns
\* a DTO echoing session_id, session_token, restaurant_id and table_id of
\* the stored session exactly when it is stored and unexpired. Stated for a
\* repository whose lookup does not raise.
C13_GetUnavailableIsNone ==
    (anonLast.op = "Get" /\ anonLast.out.detail # "Failed to retrieve session") =>
        LET sid == anonLast.session_id
            available ==
                /\ Found(anonStore, sid)
                /\ ~AnonymousSession_is_expired(anonStore[sid].expires_at, now)
        IN  IF available
            THEN /\ anonLast.out.kind = "AnonymousSessionResponseDTO"
                 /\ anonLast.dto.session_id = sid
                 /\ anonLast.dto.session_token = anonStore[sid].session_token
                 /\ anonLast.dto.restaurant_id = anonStore[sid].restaurant_id
                 /\ anonLast.dto.table_id = anonStore[sid].table_id
            ELSE /\ anonLast.out.kind = "None"
                 /\ anonLast.dto = NoDTO

\* Get ran on a session that is stored and has expired, and returned None.
C13_Witness ==
    /\ anonLast.op = "Get"
    /\ Found(anonStore, anonLast.session_id)
    /\ AnonymousSession_is_expired(anonStore[anonLast.session_id].expires_at, now)
    /\ anonLast.out.kind = "None"

C15_CreateOnlyForWellFormedIds ==
    anonLast.op = "Create" =>
        LET accepted ==
                /\ is_valid_uuid(anonLast.restaurant_id)
                /\ (anonLast.table_id = NoneId \/ is_valid_uuid(anonLast.table_id))
        IN  IF accepted
            THEN anonLast.out.calls = <<"create_anonymous_session">>
            ELSE /\ anonLast.out.kind = "MultiTenantViolationError"
                 /\ anonLast.out.calls = <<>>

\* C16: every session CreateAnonymousSession creates is requested with a
\* time-to-live of exactly 24 hours, and the response DTO's restaurant_id
\* and table_id are the request's values.
C16_CreateTtlAndScope ==
    (anonLast.op = "Create" /\ anonLast.out.kind = "AnonymousSessionResponseDTO") =>
        LET sid == anonLast.session_id IN
        /\ Found(anonStore, sid)
        /\ anonStore[sid].expires_at = <<now + 24>>
        /\ anonLast.dto.restaurant_id = anonLast.restaurant_id
        /\ anonLast.dto.table_id = anonLast.table_id
        /\ anonLast.dto.session_id = sid

\* A session was created for restaurant Y and table T1 after the clock moved.
C16_Witness ==
    /\ anonLast.op = "Create"
    /\ anonLast.out.kind = "AnonymousSessionResponseDTO"
    /\ anonLast.restaurant_id = "Y"
    /\ anonLast.table_id = "T1"
    /\ now > 0

(***************************************************************************)
(* Claims about email sign-in and sign-up                                  *)
(***************************************************************************)
\* C17: EmailSignIn and EmailSignUp with a malformed email fail with
\* InvalidEmailFormat, and with a well-formed email and a password shorter
\* than 8 characters fail with WeakPassword; in both cases no repository
\* method has been invoked.
C17_LocalRejectionBeforeRepository ==
    emailLast.op \in {"EmailSignIn", "EmailSignUp"} =>
        /\ ~is_valid_email(emailLast.email) =>
                /\ emailLast.out.kind = "InvalidEmailFormatError"
                /\ emailLast.out.calls = <<>>
        /\ (is_valid_email(emailLast.email) /\ Len(emailLast.password) < 8) =>
                /\ emailLast.out.kind = "WeakPasswordError"
                /\ emailLast.out.calls = <<>>

\* A sign-up with a well-formed email and a password of length 7 was
\* refused while the repository would have created the account.
C17_Witness ==
    /\ emailLast.op = "EmailSignUp"
    /\ is_valid_email(emailLast.email)
    /\ Len(emailLast.password) = 7
    /\ emailLast.lookup = "none"
    /\ emailLast.behaviour.raises = "none"
    /\ emailLast.behaviour.result.success
    /\ emailLast.out.kind = "WeakPasswordError"

\* C18: EmailSignUp with a valid email and password: when get_user_by_email
\* returns a user the use case raises UserAlreadyExists and
\* sign_up_with_email is not invoked; sign_up_with_email is invoked only
\* after a lookup that returned no user.
C18_NoCreationForExistingUser ==
    (emailLast.op = "EmailSignUp" /\ is_valid_email(emailLast.email)
        /\ Len(emailLast.password) >= 8) =>
        /\ emailLast.lookup = "user" =>
                /\ emailLast.out.kind = "UserAlreadyExistsError"
                /\ "sign_up_with_email" \notin CallsOf(emailLast.out)
        /\ "sign_up_with_email" \in CallsOf(emailLast.out) =>
                /\ emailLast.lookup = "none"
                /\ emailLast.out.calls = <<"get_user_by_email", "sign_up_with_email">>

\* The lookup found a user while the repository would have created the
\* account, and the sign-up was refused after the lookup alone.
C18_Witness ==
    /\ emailLast.op = "EmailSignUp"
    /\ emailLast.lookup = "user"
    /\ emailLast.behaviour.raises = "none"
    /\ emailLast.behaviour.result.success
    /\ emailLast.out.kind = "UserAlreadyExistsError"
    /\ emailLast.out.calls = <<"get_user_by_email">>

C20_SignUpPendingConfirmation ==
    (emailLast.op = "EmailSignUp" /\ is_valid_email(emailLast.email)
        /\ Len(emailLast.password) >= 8 /\ emailLast.lookup = "none"
        /\ emailLast.behaviour.raises = "none"
        /\ emailLast.behaviour.result.success
        /\ emailLast.behaviour.result.has_user) =>
        LET session == emailLast.behaviour.result.session
            dto == emailLast.dto
        IN  /\ emailLast.out.kind = "AuthResponseDTO"
            /\ dto.user # <<>>
            /\ IF session = <<>>
               THEN /\ dto.access_token = ""
                    /\ dto.refresh_token = ""
                    /\ dto.expires_in = 0
                    /\ ~dto.user[1].is_active
               ELSE /\ dto.access_token = session[1].access_token
                    /\ dto.refresh_token =
                            IF session[1].refresh_token # <<>>
                            THEN session[1].refresh_token[1] ELSE ""
                    /\ dto.expires_in = 3600

\* An owner's sign-up succeeded without a session and returned empty tokens.
C20_Witness ==
    /\ emailLast.op = "EmailSignUp"
    /\ emailLast.role = "owner"
    /\ emailLast.behaviour.raises = "none"
    /\ emailLast.behaviour.result.success
    /\ emailLast.behaviour.result.session = <<>>
    /\ emailLast.out.kind = "AuthResponseDTO"
    /\ emailLast.dto.access_token = ""
    /\ emailLast.dto.expires_in = 0

(***************************************************************************)
(* Claims about token refresh and the user profile                         *)
(***************************************************************************)
\* C21: TokenRefreshUseCase.execute raises InvalidToken for an empty or
\* whitespace-only refresh token before any repository call; when the
\* repository reports a failure it raises TokenExpired if the failure
\* message contains "expired" in any letter case, and InvalidToken otherwise,
\* an absent message included.
C21_RefreshFailures ==
    ucLast.use_case = "TokenRefresh" =>
        /\ strip(ucLast.request) = <<>> =>
              /\ ucLast.out.kind = "InvalidTokenError"
              /\ ucLast.out.calls = <<>>
        /\ ( /\ strip(ucLast.request) # <<>>
             /\ ucLast.behaviour.raises = "none"
             /\ ~ucLast.behaviour.result.success ) =>
              LET error_message == ucLast.behaviour.result.error_message
                  mentions ==
                      /\ error_message # <<>>
                      /\ \E k \in 1..Len(error_message[1]) :
                            /\ k + 6 <= Len(error_message[1])
                            /\ \A j \in 0..6 :
                                  LowerCase(error_message[1][k + j]) = expired[j + 1]
              IN  /\ ucLast.out.calls = <<"refresh_session">>
                  /\ ucLast.out.kind =
                        IF mentions THEN "TokenExpiredError" ELSE "InvalidTokenError"

C21_Witness ==
    /\ ucLast.use_case = "TokenRefresh"
    /\ ucLast.behaviour.raises = "none"
    /\ ucLast.behaviour.result.error_message =
          <<(<<"Session ", "E", "x", "p", "i", "r", "e", "d", " at noon">>)>>
    /\ ucLast.out.kind = "TokenExpiredError"

\* C29: UserProfileUseCase.execute raises UserNotFound when get_user_by_id
\* returns no user; otherwise it returns a profile whose name and is_active
\* are the fetched User's and whose id, email, phone, role, restaurant_id and
\* permissions are the UserContext's.
C29_ProfileFromUserAndContext ==
    ucLast.use_case = "UserProfile" =>
        LET user_context == ucLast.request
            lookup == ucLast.behaviour
        IN  /\ lookup.kind = "none" =>
                  ucLast.out.kind = "UserNotFoundError" /\ ucLast.dto = <<>>
            /\ lookup.kind = "user" =>
                  /\ ucLast.out.kind = "returned"
                  /\ ucLast.dto # <<>>
                  /\ ucLast.dto[1].name = lookup.user[1].name
                  /\ ucLast.dto[1].is_active = lookup.user[1].is_active
                  /\ ucLast.dto[1].id = user_context.user_id
                  /\ ucLast.dto[1].email = user_context.email
                  /\ ucLast.dto[1].phone = user_context.phone
                  /\ ucLast.dto[1].role = user_context.role
                  /\ ucLast.dto[1].restaurant_id = user_context.restaurant_id
                  /\ ucLast.dto[1].permissions = user_context.permissions

C29_Witness ==
    /\ ucLast.use_case = "UserProfile"
    /\ ucLast.behaviour.kind = "user"
    /\ ucLast.behaviour.user[1] = [name |-> <<"Ann">>, is_active |-> FALSE]
    /\ ucLast.request.role = "staff"
    /\ ucLast.out.kind = "returned"

(***************************************************************************)
(* Claims about the HTTP application                                       *)
(***************************************************************************)
\* C30: GET /healthz answers 200 with body status "ok" in every state of
\* the application, whatever Authorization or tenant header the request
\* carries, none included.
C30_HealthzAlwaysOk ==
    httpLast.path = "/healthz" =>
        /\ httpLast.response.status_code = 200
        /\ httpLast.response.body = [status |-> "ok"]

C30_Witness ==
    /\ httpLast.path = "/healthz"
    /\ httpLast.authorization = <<>>
    /\ httpLast.x_tenant_id = <<>>
    /\ \E n \in 1..Len(srvSessions) : srvSessions[n].live
    /\ httpLast.response.status_code = 200

(***************************************************************************)
(* Claims about the phone use cases                                        *)
(***************************************************************************)
WellFormedPhone(phone) ==
    /\ Len(phone) \in 3..16
    /\ phone[1] = "+"
    /\ phone[2] \in Digits \ {"0"}
    /\ \A k \in 3..Len(phone) : phone[k] \in Digits

SixDigits(token) == Len(token) = 6 /\ \A k \in 1..6 : token[k] \in Digits

MentionsExpired(text) ==
    \E k \in 1..Len(text) :
        /\ k + 6 <= Len(text)
        /\ \A j \in 0..6 : LowerCase(text[k + j]) = expired[j + 1]

\* C22: OTPVerificationUseCase.execute with a well-formed phone and a
\* 6-digit code raises OTPExpired when the repository reports a failure
\* whose message contains "expired" in any letter case and InvalidOTP for
\* any other reported failure; a code that is not exactly 6 digits raises
\* InvalidOTP without verify_phone_otp being called.
C22_VerificationFailures ==
    ( /\ ucLast.use_case = "OTPVerification"
      /\ WellFormedPhone(ucLast.request.phone) ) =>
        /\ ( /\ SixDigits(ucLast.request.token)
             /\ ucLast.behaviour.raises = "none"
             /\ ~ucLast.behaviour.result.success
             /\ ucLast.behaviour.result.error_message # <<>> ) =>
              ucLast.out.kind =
                  IF MentionsExpired(ucLast.behaviour.result.error_message[1])
                  THEN "OTPExpiredError" ELSE "InvalidOTPError"
        /\ ~SixDigits(strip(ucLast.request.token)) =>
              /\ ucLast.out.kind = "InvalidOTPError"
              /\ ucLast.out.calls = <<>>

\* C23: PhoneAuthUseCase, OTPVerificationUseCase and ResendOTPUseCase each
\* raise InvalidPhoneFormat, before any repository call, for a phone that is
\* not "+" followed by 2 to 15 digits the first of which is not 0.
C23_MalformedPhoneRejected ==
    ( /\ ucLast.use_case \in {"PhoneAuth", "OTPVerification", "ResendOTP"}
      /\ ~WellFormedPhone(ucLast.request.phone) ) =>
        /\ ucLast.out.kind = "InvalidPhoneFormatError"
        /\ ucLast.out.calls = <<>>

\* C24: PhoneAuthUseCase.execute with a well-formed phone returns an
\* acknowledgement with otp_sent true and the request's phone when
\* initiate_phone_auth returns true, and raises AuthenticationError when it
\* returns false or raises.
C24_PhoneAuthOutcomes ==
    ( /\ ucLast.use_case = "PhoneAuth"
      /\ WellFormedPhone(ucLast.request.phone) ) =>
        /\ ucLast.behaviour = "true" =>
              /\ ucLast.out.kind = "returned"
              /\ ucLast.dto # <<>>
              /\ ucLast.dto[1].otp_sent
              /\ ucLast.dto[1].phone = ucLast.request.phone
        /\ ucLast.behaviour \in {"false", "raise"} =>
              ucLast.out.kind = "AuthenticationError"

\* C25: PhoneSignUpUseCase.execute invokes verify_phone_otp only after
\* initiate_phone_auth was invoked and accepted, and whenever
\* initiate_phone_auth is accepted for a well-formed phone (the verification
\* request being well formed too) it goes on to invoke verify_phone_otp.
C25_SignUpOrder ==
    ucLast.use_case = "PhoneSignUp" =>
        LET calls == ucLast.out.calls
            verify_request == ucLast.request.verify_request
        IN  /\ \A k \in 1..Len(calls) :
                  calls[k] = "verify_phone_otp" =>
                      /\ ucLast.behaviour.initiate = "true"
                      /\ \E j \in 1..(k - 1) : calls[j] = "initiate_phone_auth"
            /\ ( /\ WellFormedPhone(ucLast.request.phone)
                 /\ SixDigits(verify_request.token)
                 /\ ucLast.behaviour.initiate = "true" ) =>
                  \E k \in 1..Len(calls) : calls[k] = "verify_phone_otp"

\* The exception classes of auth_exceptions.py: AuthenticationError and its
\* subclasses, each carrying an error_code.
AuthenticationErrors ==
    {"AuthenticationError", "InvalidCredentialsError", "UserNotFoundError",
     "UserAlreadyExistsError", "TokenExpiredError", "InvalidTokenError",
     "SessionNotFoundError", "SessionExpiredError", "MultiTenantViolationError",
     "OTPExpiredError", "InvalidOTPError", "RateLimitExceededError",
     "InvalidEmailFormatError", "WeakPasswordError", "InvalidPhoneFormatError"}

\* C26: every use case, on every input and repository behaviour, either
\* returns or raises AuthenticationError or one of its subclasses; no other
\* exception type escapes a use case.
C26_OnlyAuthenticationErrors ==
    ucLast.use_case # "none" =>
        ucLast.out.kind \in {"returned"} \cup AuthenticationErrors

(***************************************************************************)
(* Claims about every use case                                             *)
(***************************************************************************)
\* C28: no use case retries a provider call: in one execution each
\* repository method is invoked at most once, and the call that reported a
\* failure is the last call of the execution.
C28_NoRetry ==
    LET calls == ucLast.out.calls
    IN  /\ \A i, j \in 1..Len(calls) : calls[i] = calls[j] => i = j
        /\ ( /\ ucLast.use_case # "none"
             /\ \E k \in 1..Len(calls) : calls[k] = ucLast.behaviour.failed ) =>
              calls[Len(calls)] = ucLast.behaviour.failed

C28_Witness ==
    /\ ucLast.use_case = "EmailSignUp"
    /\ ucLast.behaviour.failed = "sign_up_with_email"
    /\ ucLast.out.calls = <<"get_user_by_email", "sign_up_with_email">>
    /\ ucLast.out.kind = "AuthenticationError"

(***************************************************************************)
(* Claims about what reaches the caller from the provider                  *)
(***************************************************************************)
\* C27: the message of an exception raised to the caller never contains the
\* provider's raw error text: two runs of EmailSignIn, OTPVerification or
\* TokenRefresh on the same request that differ only in the text of the
\* exception the provider raised end with the same exception type and the
\* same message.
C27_ProviderTextNeverSurfaces ==
    [][ ( /\ ucLast.use_case \in {"EmailSignIn", "OTPVerification", "TokenRefresh"}
          /\ ucLast'.use_case = ucLast.use_case
          /\ ucLast'.request = ucLast.request
          /\ ucLast.behaviour.kind = "raise"
          /\ ucLast'.behaviour.kind = "raise" ) =>
            /\ ucLast'.out.kind = ucLast.out.kind
            /\ ucLast'.out.detail = ucLast.out.detail ]_vars

(***************************************************************************)
(* Claims about route guards                                               *)
(***************************************************************************)
\* C31: the guard made by require_restaurant_access rejects with 403, before
\* the handler, every request whose target restaurant differs from the
\* context's restaurant; requests with no target or a matching target pass.
C31_TenantIsolationGuard ==
    guardLast.guard = "require_restaurant_access" =>
        IF /\ guardLast.argument # NoneId
           /\ guardLast.argument # guardLast.user_context.restaurant_id
        THEN guardLast.status_code = 403 /\ ~guardLast.handler_reached
        ELSE guardLast.handler_reached

(***************************************************************************)
(* Claims about the lifetime of an AuthSession                             *)
(***************************************************************************)
\* C32: a session built from a provider session with a positive expires_in
\* has expires_at = its issue time + expires_in, and is valid (is_valid()
\* true, is_expired() false) at every instant up to the end of that lifetime.
C32_SessionLivesItsLifetime ==
    (authSession.issued /\ authSession.expires_in > 0) =>
        LET ends == authSession.created_at + authSession.expires_in * TicksPerSecond
        IN  /\ authSession.expires_at = <<ends>>
            /\ (sessionCheck.made /\ sessionCheck.at <= ends) =>
                    (sessionCheck.is_valid /\ ~sessionCheck.is_expired)

C34_GettersReuseTheClient ==
    cacheLast.n >= 2 =>
        /\ cacheLast.outcome = "client"
        /\ cacheLast.client = cacheEntry[cacheLast.getter][1].id

(***************************************************************************)
(* Claims about POST /auth/validate-restaurant-code                        *)
(***************************************************************************)
\* The code as the handler compares it, and the restaurants it matches.
CodeOf(request) == strip(upper(request.code))

WellSized(code) == Len(code) >= 6 /\ Len(code) <= 8

\* C35: for a trimmed, upper-cased code of 6 to 8 characters that matches a
\* restaurant, with a successful insert, the response has valid = true, the
\* matched restaurant's id and name and the session_token of the inserted
\* row, which is scoped to that restaurant and expires 24 hours ahead.
C35_ValidCodeOpensSession ==
    ( /\ codeLast.made
      /\ WellSized(CodeOf(codeLast))
      /\ codeLast.select = "data"
      /\ select_restaurants(CodeOf(codeLast)) # {}
      /\ codeLast.insert = "data" ) =>
        \E restaurant \in select_restaurants(CodeOf(codeLast)) :
            /\ codeLast.status_code = 200
            /\ codeLast.body.valid
            /\ codeLast.body.restaurant_id = restaurant.id
            /\ codeLast.body.name = restaurant.name
            /\ Len(codeRows) = Len(codeLast.rows_before) + 1
            /\ codeRows[Len(codeRows)] =
                    [restaurant_id |-> restaurant.id,
                     session_token |-> codeLast.body.session_token,
                     expires_at |-> codeLast.at + SessionTokenHours]

\* C36: a request answered with 400, 404 or 500 has inserted no row into
\* anonymous_sessions; a row is inserted only by a request answered with
\* valid = true and the row's session_token.
C36_AllOrNothing ==
    codeLast.made =>
        /\ codeLast.status_code \in {400, 404, 500} => codeRows = codeLast.rows_before
        /\ codeRows # codeLast.rows_before =>
                /\ codeLast.body.valid
                /\ codeLast.body.session_token = codeRows[Len(codeRows)].session_token

\* C37: a code of 6 to 8 characters that matches no restaurant is answered
\* with 404; a code shorter than 6 or longer than 8 characters after trimming
\* is answered with 400 and the data store is not queried.
C37_NotFoundAndBadFormat ==
    codeLast.made =>
        /\ ( /\ WellSized(CodeOf(codeLast))
             /\ codeLast.select = "data"
             /\ select_restaurants(CodeOf(codeLast)) = {} ) =>
                codeLast.status_code = 404
        /\ ~WellSized(CodeOf(codeLast)) =>
                (codeLast.status_code = 400 /\ codeLast.calls = <<>>)

(***************************************************************************)
(* Claims about a refresh answered without a user                          *)
(***************************************************************************)
\* C38: TokenRefreshUseCase.execute returns its response whenever the
\* provider issued a new session for the refresh token, also when the
\* provider's response carries a session but no user.
C38_RefreshWithoutUser ==
    ( /\ ucLast.use_case = "TokenRefresh"
      /\ Token(ucLast.request).ok
      /\ ucLast.behaviour.kind = "response"
      /\ ucLast.behaviour.session ) => ucLast.out.kind = "returned"

(***************************************************************************)
(* Claims about what SignOut calls                                         *)
(***************************************************************************)
\* C39: SignOutUseCase.execute makes no repository call when the context is
\* absent or anonymous; for a present, non-anonymous context it calls the
\* repository's sign_out exactly once, with the context's user_id; no
\* execution changes the token blacklist.
C39_SignOutCalls ==
    [][ (soLast'.op = "SignOutUseCase" /\ soLast' # soLast) =>
            /\ soLast'.contextKind \in {"none", "anonymous"} =>
                    (soLast'.out.calls = <<>> /\ soLast'.arguments = <<>>)
            /\ soLast'.contextKind = "authenticated" =>
                    /\ soLast'.out.calls = <<"sign_out">>
                    /\ soLast'.arguments = <<soLast'.by>>
            /\ blacklist' = blacklist
            /\ revoked' = revoked ]_vars

\* An anonymous context signed out beside a non-empty blacklist, and the
\* repository was not called.
C39_Witness ==
    /\ soLast.op = "SignOutUseCase"
    /\ soLast.contextKind = "anonymous"
    /\ soLast.out.calls = <<>>
    /\ soLast.out.kind = "SignOutResponseDTO"
    /\ blacklist # {}

(***************************************************************************)
(* Claims about what value objects reveal                                  *)
(***************************************************************************)
\* C40: the error raised for a malformed input to Email, Phone, OTPCode,
\* Token or SessionToken never contains the raw input, str() of a Token,
\* SessionToken or OTPCode never equals the value it hides, and an OTPCode
\* always displays as "******".
C40_NothingRevealed ==
    /\ (voLast.class # "none" /\ ~voLast.ok /\ voLast.input # <<>>) =>
            ~Contains(voLast.error, voLast.input)
    /\ (voLast.displayed /\ voLast.class \in {"Token", "SessionToken", "OTPCode"}) =>
            voLast.str # voLast.value
    /\ (voLast.displayed /\ voLast.class = "OTPCode") => voLast.str = Stars(6)

====
